---- MODULE Spec2Model ----
(***************************************************************************)
(* Gumploop: a multi-agent development pipeline.  Three interactive CLI    *)
(* agents (claude, gemini, codex) run in tmux sessions; phase executors    *)
(* (planning, coding, testing, debugging, discovery, research) drive them  *)
(* through prompts, wait for progress events or completion signals, and    *)
(* persist a PipelineState.                                                *)
(*                                                                         *)
(* Spec       : the phase executors, the state store, the sessions, the    *)
(*              artifact files and the progress log.                       *)
(* SpecOracle : the approval oracle as a pure function of a document.      *)
(* SpecDetect : one session: sendMessage, the agent, the completion        *)
(*              detectors of the three agent types.                        *)
(* SpecWait   : the adaptive timeout loop shared by the four waits.        *)
(* SpecWaitFair: SpecWait with the loop kept running.                      *)
(* SpecAgent  : one TmuxAgent: start with its readiness polls, and stop.   *)
(* SpecStore  : loadState on state files of any content, isValidState.     *)
(* SpecSave   : saveState and loadState on the texts they write and read.  *)
(* SpecProgress: the progress-log lookup on logs of any lines.             *)
(* SpecIds    : generateRequestId under a millisecond clock.               *)
(* SpecWorkDir: validateWorkDir and getProjectDir on paths.                *)
(* SpecSend   : one sendMessage call, its temp directory and paste buffer. *)
(* SpecStart  : the three agent starts of a phase, run under Promise.all.  *)
(* SpecElsewhere: Spec on a disk that another project's runs left.         *)
(* SpecTools  : Spec with the stop, reset and status tools beside it.      *)
(***************************************************************************)
EXTENDS Integers, Sequences, FiniteSets, TLC

\* ------------------------------------------------------------------ bounds
MaxStarts == 2        \* SpecAgent: calls of start() on the one agent
MaxStops == 2         \* SpecAgent: calls of stop() on the one agent
MaxPaneTokens == 1    \* SpecAgent: texts a captured pane shows at once
MaxOdd == 1           \* SpecStore: fields of a stored object that differ from the default's
MaxSaves == 2         \* SpecSave: calls of saveState in one behaviour
MaxMs == 2            \* SpecSave, SpecIds: milliseconds the clock advances
MaxLines == 3         \* SpecProgress: lines of progress.jsonl
MaxSends == 3         \* SpecIds: calls of sendMessage in one behaviour
MaxMessages == 2      \* SpecSend: calls of sendMessage on the one agent
MaxToolCalls == 1     \* SpecTools: calls of stop, reset and status in one behaviour
MaxPathLen == 2       \* SpecWorkDir: segments of a workDir argument
MaxCreated == 1       \* SpecWorkDir: directories getProjectDir creates in one behaviour
MaxRuns == 1          \* phase invocations by the caller in one behaviour
MaxIterArg == 2       \* largest maxIterations argument the caller passes
MaxDocLen == 3        \* longest document (in tokens) given to the oracle
MaxRequests == 2      \* sendMessage calls on one session
MaxClock == 6         \* instants at which a session's signals are produced
MaxTime == 11000      \* seconds after which an adaptive wait is no longer followed

\* --------------------------------------------------------------- constants
NULL == "null"
DEFAULT_PROJECT_DIR == "/tmp/collab-mcp/project"
GLOBAL == "/tmp/collab-mcp/.state.json"
WorkDirArgs == {"/home/u/proj"}
ProjectDirs == WorkDirArgs \cup {DEFAULT_PROJECT_DIR}
AgentType == {"claude", "gemini", "codex"}
Tasks == {"task"}

\* adaptive timeout strategy; the unit of time is the second
TIMEOUT_BASE == 1800
TIMEOUT_EXTENSION == 900
ACTIVITY_CHECK_INTERVAL == 2
ACTIVITY_THRESHOLD == 60
READY_POLLS == 60

VARIABLES
  stateFiles,    \* location -> <<>> (no file) or <<PipelineState>>
  clock,         \* the stamp of the next save: Spec gives every save its own
                 \* (SpecSave has the clock saveState reads, with its resolution)
  main,          \* frame of the phase executor invoked by the caller
  test,          \* frame of executeTesting (top level or inside debugging)
  alive,         \* tmux sessions that exist
  terminalProc,  \* agents whose terminalProc handle is non-null
  files,         \* artifact files of the project
  progress,      \* parsed lines of progress.jsonl (epoch: ghost, the run that saw it appended)
  jobs,          \* prompts delivered to agents and not yet acted upon
  owned,         \* ghost: sessions started by the current invocation
  run,           \* ghost: number of invocations by the caller so far
  epoch,         \* ghost: number of executor runs so far (nested ones too)
  result,        \* what the last invocation handed to its caller
  oracle,        \* SpecOracle: a review document and the verdict on it
  det,           \* SpecDetect: one session, its transcript and its pane
  wait,          \* SpecWait: one adaptive wait and the agent it watches
  tmux,          \* SpecAgent: one TmuxAgent, its session and its terminal
  store,         \* SpecStore: two state files and what loadState made of them
  sfs,           \* SpecSave: the state files as texts, the clock, the last load
  plog,          \* SpecProgress: the lines of a progress log and a lookup
  ids,           \* SpecIds: the clock and the request ids generated so far
  wd,            \* SpecWorkDir: a workDir argument and its resolution
  tool,          \* SpecTools: the stop, reset and status calls made so far
  msg,           \* SpecSend: one sendMessage call, its temp directory and buffer
  par            \* SpecStart: the three starts of a phase under Promise.all

\* the variables of the phase executors, and those of the other specifications
pvars == <<stateFiles, clock, main, test, alive, terminalProc, files,
           progress, jobs, owned, run, epoch, result>>
aux == <<oracle, det, wait, tmux, store, sfs, plog, ids, wd, tool, msg, par>>
vars == <<pvars, aux>>

\* ------------------------------------------------------------- state store
defaultStateAt(now) ==
  [currentPhase |-> NULL, task |-> "", workDir |-> DEFAULT_PROJECT_DIR,
   iteration |-> 0, discoveryComplete |-> FALSE, selectedFeature |-> NULL,
   planningComplete |-> FALSE, codingComplete |-> FALSE,
   testingComplete |-> FALSE, debuggingComplete |-> FALSE,
   activeSessions |-> <<>>, lastUpdate |-> now]

\* lastUpdate: new Date().toISOString()
defaultState == defaultStateAt(clock)

\* workDir = NULL stands for the omitted argument
loadState(workDir) ==
  IF workDir # NULL /\ stateFiles[workDir] # <<>>
    THEN stateFiles[workDir][1]
    ELSE IF stateFiles[GLOBAL] # <<>>
      THEN stateFiles[GLOBAL][1]
      ELSE defaultState

\* the object as saveState leaves it (lastUpdate re-stamped)
Stamped(state) == [state EXCEPT !.lastUpdate = clock]

\* saveState writes the project-scoped file of state.workDir and the global one
saveState(state) ==
  /\ stateFiles' = [stateFiles EXCEPT ![state.workDir] = <<Stamped(state)>>,
                                      ![GLOBAL] = <<Stamped(state)>>]
  /\ clock' = clock + 1

getProjectDir(workDir) == IF workDir \in WorkDirArgs THEN workDir ELSE DEFAULT_PROJECT_DIR

\* ---------------------------------------------------------------- sessions
\* variant: the name is made of the directory hash alone
sessionName_hashOnly(projectDir, type) == <<projectDir, "agent">>

\* sanitizeSessionName(`gumploop-${hash}-${type}`): the role name is not used
sessionName(projectDir, type) == <<projectDir, type>>

Agent(role, type, projectDir) == [role |-> role, type |-> type, dir |-> projectDir]
getSessionName(a) == sessionName(a.dir, a.type)

\* ---------------------------------------------------------- approval oracle
Tokens == {"APPROVED", "NEEDS_REVISION", "CODE_APPROVED", "text"}

\* String.includes on one token: CODE_APPROVED has APPROVED as a substring
TokenIncludes(tok, marker) ==
  \/ tok = marker
  \/ tok = "CODE_APPROVED" /\ marker = "APPROVED"

includes(doc, marker) == \E i \in 1..Len(doc) : TokenIncludes(doc[i], marker)

\* variant: the marker alone decides
isApproved_markerOnly(doc, marker) == includes(doc, marker)

isApproved(doc, marker) == includes(doc, marker) /\ ~includes(doc, "NEEDS_REVISION")

\* iteration (ghost): the iteration of the prompt the file was written for
\* (0: a file of an earlier run, or no file)
NoDoc == [exists |-> FALSE, content |-> <<>>, iteration |-> 0]
Doc(c) == [exists |-> TRUE, content |-> c, iteration |-> 0]
DocAt(c, i) == [exists |-> TRUE, content |-> c, iteration |-> i]
\* the artifact files once the run that wrote them is over
Aged(texts) ==
  [name \in DOMAIN texts |->
     IF name = "plan" THEN texts[name] ELSE [texts[name] EXCEPT !.iteration = 0]]
\* existsSync(f) ? readFileSync(f) : ""
readOrEmpty(f) == IF f.exists THEN f.content ELSE <<>>

ReviewDocs == {<<"text", "APPROVED">>, <<"APPROVED", "NEEDS_REVISION">>}
CodeReviewDocs == {<<"CODE_APPROVED">>, <<"CODE_APPROVED", "NEEDS_REVISION">>}

TestDocs == {<<"TESTS_PASS">>, <<"TESTS_FAIL">>}

\* ------------------------------------------------------------ frames, jobs
blankState == defaultStateAt(0)
IdleMain == [fn |-> "idle", pc |-> "idle", state |-> blankState,
             maxIterations |-> 0, approved |-> FALSE, k |-> 0]
IdleTest == [pc |-> "idle", state |-> blankState, caller |-> "none"]
NoResult == [fn |-> "none", kind |-> "none", success |-> FALSE, consensus |-> FALSE]
Returned(fn, success, consensus) ==
  [fn |-> fn, kind |-> "return", success |-> success, consensus |-> consensus]
Thrown(fn) == [fn |-> fn, kind |-> "throw", success |-> FALSE, consensus |-> FALSE]

\* a prompt delivered to the agent in `session`; done: the agent has answered
Job(session, action, iteration) ==
  [session |-> session, action |-> action, iteration |-> iteration, done |-> FALSE]

Event(agent, action, iteration) ==
  [agent |-> agent, action |-> action, iteration |-> iteration, epoch |-> epoch]

\* lines 407-419 of waitForProgressEvent: some parsed line equals the tuple
progressEventFound(agent, action, iteration) ==
  \E e \in progress :
    e.agent = agent /\ e.action = action /\ e.iteration = iteration

\* TmuxAgent.start() on each of `agents`: the session of that name is killed
\* first; the starts in `ok` then spawn theirs, the others throw before spawning
start(agents, ok) ==
  /\ alive' = (alive \ {getSessionName(a) : a \in agents})
                 \cup {getSessionName(a) : a \in ok}
  /\ terminalProc' = terminalProc \cup ok
  /\ owned' = owned \cup {getSessionName(a) : a \in ok}
  /\ jobs' = {j \in jobs : j.session \notin {getSessionName(a) : a \in agents}}

\* TmuxAgent.stop(): kill the terminal process and the session; never throws
stop(agents) ==
  /\ alive' = alive \ {getSessionName(a) : a \in agents}
  /\ terminalProc' = terminalProc \ agents
  /\ jobs' = {j \in jobs : j.session \notin {getSessionName(a) : a \in agents}}

Trio(role, projectDir) == {Agent(role, t, projectDir) : t \in AgentType}
SessionList(projectDir) ==
  <<sessionName(projectDir, "claude"), sessionName(projectDir, "gemini"),
    sessionName(projectDir, "codex")>>

Goto(p) == main' = [main EXCEPT !.pc = p]
At(fn, p) == main.fn = fn /\ main.pc = p /\ test.pc = "idle"
Idle == main.fn = "idle" /\ test.pc = "idle"

\* await agent.sendMessage(prompt): the prompt reaches the agent, or a tmux
\* command fails and the call throws
SendStep(fn, p, type, action, next) ==
  /\ At(fn, p)
  /\ \/ /\ jobs' = jobs \cup
                   {Job(sessionName(main.state.workDir, type), action,
                        main.state.iteration)}
        /\ Goto(next)
     \/ /\ jobs' = jobs
        /\ Goto("catch")
  /\ UNCHANGED <<aux, stateFiles, clock, test, alive, terminalProc, files,
                 progress,
                 owned, run, epoch, result>>

\* await agent.waitForProgressEvent(...): returns once the tuple is in the
\* log, throws on timeout while it is not
WaitStep(fn, p, type, action, next) ==
  /\ At(fn, p)
  /\ IF progressEventFound(type, action, main.state.iteration)
       THEN Goto(next)
       ELSE Goto("catch")
  /\ UNCHANGED <<aux, stateFiles, clock, test, alive, terminalProc, files,
                 progress,
                 jobs, owned, run, epoch, result>>

\* ------------------------------------------------------------ executePlanning
executePlanning_begin ==
  /\ Idle /\ run < MaxRuns
  /\ \E task \in Tasks, maxIterations \in 1..MaxIterArg, workDir \in WorkDirArgs :
       LET projectDir == getProjectDir(workDir)
           state == [loadState(projectDir) EXCEPT
                       !.currentPhase = "planning", !.task = task,
                       !.workDir = projectDir, !.iteration = 0,
                       !.activeSessions = <<>>]
       IN /\ saveState(state)
          /\ main' = [fn |-> "executePlanning", pc |-> "start",
                      state |-> Stamped(state), maxIterations |-> maxIterations,
                      approved |-> FALSE, k |-> 0]
  /\ files' = [files EXCEPT !.plan = "absent", !.reviewGemini = NoDoc,
                            !.reviewCodex = NoDoc]
  /\ progress' = {}
  /\ run' = run + 1 /\ epoch' = epoch + 1 /\ owned' = {} /\ result' = NoResult
  /\ UNCHANGED <<aux, test, alive, terminalProc, jobs>>

\* await Promise.all([claude.start(), gemini.start(), codex.start()])
StartTrio(fn, role, next) ==
  /\ At(fn, "start")
  /\ \E ok \in SUBSET Trio(role, main.state.workDir) :
       /\ start(Trio(role, main.state.workDir), ok)
       /\ IF ok = Trio(role, main.state.workDir)
            THEN LET state == [main.state EXCEPT
                                 !.activeSessions = SessionList(main.state.workDir)]
                 IN /\ saveState(state)
                    /\ main' = [main EXCEPT !.pc = next, !.state = Stamped(state)]
            ELSE /\ Goto("catch")
                 /\ UNCHANGED <<stateFiles, clock>>
  /\ UNCHANGED <<aux, test, files, progress, run, epoch, result>>

executePlanning_start == StartTrio("executePlanning", "planner", "loop")

\* variant: the loop runs to the cap whether or not consensus was reached
executePlanning_loop_toCap ==
  /\ At("executePlanning", "loop")
  /\ IF main.state.iteration < main.maxIterations
       THEN LET state == [main.state EXCEPT !.iteration = @ + 1]
            IN /\ saveState(state)
               /\ main' = [main EXCEPT !.pc = "send_claude", !.state = Stamped(state)]
               /\ files' = [files EXCEPT !.reviewGemini = NoDoc, !.reviewCodex = NoDoc]
       ELSE /\ Goto(IF main.approved THEN "finish" ELSE "send_final")
            /\ UNCHANGED <<stateFiles, clock, files>>
  /\ UNCHANGED <<aux, test, alive, terminalProc, progress, jobs, owned, run,
                 epoch, result>>

executePlanning_loop ==
  /\ At("executePlanning", "loop")
  /\ IF ~main.approved /\ main.state.iteration < main.maxIterations
       THEN LET state == [main.state EXCEPT !.iteration = @ + 1]
            IN /\ saveState(state)
               /\ main' = [main EXCEPT !.pc = "send_claude", !.state = Stamped(state)]
               /\ files' = [files EXCEPT !.reviewGemini = NoDoc, !.reviewCodex = NoDoc]
       ELSE /\ Goto(IF main.approved THEN "finish" ELSE "send_final")
            /\ UNCHANGED <<stateFiles, clock, files>>
  /\ UNCHANGED <<aux, test, alive, terminalProc, progress, jobs, owned, run,
                 epoch, result>>

executePlanning_sendClaude ==
  SendStep("executePlanning", "send_claude", "claude", "plan_written", "wait_claude")

\* variant: the reviewers are prompted whatever plan.md holds
executePlanning_waitClaude_unverified ==
  WaitStep("executePlanning", "wait_claude", "claude", "plan_written", "send_gemini")

\* wait for plan_written, then verify plan.md (missing or short: continue)
executePlanning_waitClaude ==
  WaitStep("executePlanning", "wait_claude", "claude", "plan_written",
           IF files.plan = "ok" THEN "send_gemini" ELSE "loop")

executePlanning_sendGemini ==
  SendStep("executePlanning", "send_gemini", "gemini", "review_written", "wait_gemini")

executePlanning_waitGemini ==
  WaitStep("executePlanning", "wait_gemini", "gemini", "review_written", "send_codex")

executePlanning_sendCodex ==
  SendStep("executePlanning", "send_codex", "codex", "review_written", "wait_codex")

\* variant: one approving reviewer is enough
consensus_either(geminiReview, codexReview) ==
  \/ isApproved(readOrEmpty(geminiReview), "APPROVED")
  \/ isApproved(readOrEmpty(codexReview), "APPROVED")

\* both reviewers must approve their own review file
consensus(geminiReview, codexReview) ==
  /\ isApproved(readOrEmpty(geminiReview), "APPROVED")
  /\ isApproved(readOrEmpty(codexReview), "APPROVED")

executePlanning_waitCodex ==
  /\ At("executePlanning", "wait_codex")
  /\ IF progressEventFound("codex", "review_written", main.state.iteration)
       THEN main' = [main EXCEPT !.pc = "loop",
                       !.approved = consensus(files.reviewGemini, files.reviewCodex)]
       ELSE Goto("catch")
  /\ UNCHANGED <<aux, stateFiles, clock, test, alive, terminalProc, files,
                 progress,
                 jobs, owned, run, epoch, result>>

executePlanning_sendFinal ==
  SendStep("executePlanning", "send_final", "claude", "summary_written", "wait_final")

executePlanning_waitFinal ==
  WaitStep("executePlanning", "wait_final", "claude", "summary_written", "finish")

executePlanning_finish ==
  /\ At("executePlanning", "finish")
  /\ stop(Trio("planner", main.state.workDir))
  /\ saveState([main.state EXCEPT !.activeSessions = <<>>,
                                  !.planningComplete = TRUE])
  /\ result' = Returned("executePlanning", main.approved, main.approved)
  /\ main' = IdleMain
  /\ files' = Aged(files)
  /\ UNCHANGED <<aux, test, progress, owned, run, epoch>>

\* variant: the catch block leaves currentPhase as it was
executePlanning_catch_keepsPhase ==
  /\ At("executePlanning", "catch")
  /\ stop(Trio("planner", main.state.workDir))
  /\ saveState([main.state EXCEPT !.activeSessions = <<>>])
  /\ result' = Thrown("executePlanning")
  /\ main' = IdleMain
  /\ files' = Aged(files)
  /\ UNCHANGED <<aux, test, progress, owned, run, epoch>>

executePlanning_catch ==
  /\ At("executePlanning", "catch")
  /\ stop(Trio("planner", main.state.workDir))
  /\ saveState([main.state EXCEPT !.activeSessions = <<>>, !.currentPhase = NULL])
  /\ result' = Thrown("executePlanning")
  /\ main' = IdleMain
  /\ files' = Aged(files)
  /\ UNCHANGED <<aux, test, progress, owned, run, epoch>>

executePlanning ==
  \/ executePlanning_begin \/ executePlanning_start \/ executePlanning_loop
  \/ executePlanning_sendClaude \/ executePlanning_waitClaude
  \/ executePlanning_sendGemini \/ executePlanning_waitGemini
  \/ executePlanning_sendCodex \/ executePlanning_waitCodex
  \/ executePlanning_sendFinal \/ executePlanning_waitFinal
  \/ executePlanning_finish \/ executePlanning_catch

\* ------------------------------------------------- waitForCompletion (phase level)
\* await agent.waitForCompletion(): returns once the agent has answered the
\* request (claude: also when the pane fallback accepts, answered or not);
\* throws on timeout while it has not
WaitCompletionStep(fn, p, type, action, next) ==
  /\ At(fn, p)
  /\ LET j == Job(sessionName(main.state.workDir, type), action, main.state.iteration)
     IN \/ /\ [j EXCEPT !.done = TRUE] \in jobs \/ type = "claude"
           /\ Goto(next)
        \/ /\ [j EXCEPT !.done = TRUE] \notin jobs
           /\ Goto("catch")
  /\ UNCHANGED <<aux, stateFiles, clock, test, alive, terminalProc, files,
                 progress,
                 jobs, owned, run, epoch, result>>

\* -------------------------------------------------------------- executeCoding
Coder(projectDir) == Agent("coder", "claude", projectDir)
Reviewer(projectDir) == Agent("reviewer", "codex", projectDir)

\* variant: no prerequisite check
executeCoding_begin_unchecked ==
  /\ Idle /\ run < MaxRuns
  /\ \E maxIterations \in 1..MaxIterArg :
       LET loaded == loadState(NULL)
           state == [loaded EXCEPT !.currentPhase = "coding", !.iteration = 0,
                                   !.activeSessions = <<>>]
       IN /\ saveState(state)
          /\ main' = [fn |-> "executeCoding", pc |-> "start_coder",
                      state |-> Stamped(state),
                      maxIterations |-> maxIterations,
                      approved |-> FALSE, k |-> 0]
          /\ result' = NoResult
  /\ run' = run + 1 /\ epoch' = epoch + 1 /\ owned' = {}
  /\ UNCHANGED <<aux, test, alive, terminalProc, files, progress, jobs>>

executeCoding_begin ==
  /\ Idle /\ run < MaxRuns
  /\ \E maxIterations \in 1..MaxIterArg :
       LET loaded == loadState(NULL)
           state == [loaded EXCEPT !.currentPhase = "coding", !.iteration = 0,
                                   !.activeSessions = <<>>]
       IN IF ~loaded.planningComplete
            THEN /\ result' = Returned("executeCoding", FALSE, FALSE)
                 /\ UNCHANGED <<stateFiles, clock, main>>
            ELSE /\ saveState(state)
                 /\ main' = [fn |-> "executeCoding", pc |-> "start_coder",
                             state |-> Stamped(state),
                             maxIterations |-> maxIterations,
                             approved |-> FALSE, k |-> 0]
                 /\ result' = NoResult
  /\ run' = run + 1 /\ epoch' = epoch + 1 /\ owned' = {}
  /\ UNCHANGED <<aux, test, alive, terminalProc, files, progress, jobs>>

\* await agent.start(); state.activeSessions.push(name); saveState(state)
StartOne(fn, p, agent, next) ==
  /\ At(fn, p)
  /\ \/ /\ start({agent}, {agent})
        /\ LET state == [main.state EXCEPT
                           !.activeSessions = Append(@, getSessionName(agent))]
           IN /\ saveState(state)
              /\ main' = [main EXCEPT !.pc = next, !.state = Stamped(state)]
     \/ /\ start({agent}, {})
        /\ Goto("catch")
        /\ UNCHANGED <<stateFiles, clock>>
  /\ UNCHANGED <<aux, test, files, progress, run, epoch, result>>

executeCoding_startCoder ==
  StartOne("executeCoding", "start_coder", Coder(main.state.workDir), "start_reviewer")

executeCoding_startReviewer ==
  StartOne("executeCoding", "start_reviewer", Reviewer(main.state.workDir), "loop")

executeCoding_loop ==
  /\ At("executeCoding", "loop")
  /\ IF ~main.approved /\ main.state.iteration < main.maxIterations
       THEN LET state == [main.state EXCEPT !.iteration = @ + 1]
            IN /\ saveState(state)
               /\ main' = [main EXCEPT !.pc = "send_coder", !.state = Stamped(state)]
       ELSE /\ Goto("finish")
            /\ UNCHANGED <<stateFiles, clock>>
  /\ UNCHANGED <<aux, test, alive, terminalProc, files, progress, jobs,
                 owned, run, epoch,
                 result>>

executeCoding_sendCoder ==
  SendStep("executeCoding", "send_coder", "claude", "implement", "wait_coder")

executeCoding_waitCoder ==
  WaitCompletionStep("executeCoding", "wait_coder", "claude", "implement",
                     "send_reviewer")

executeCoding_sendReviewer ==
  SendStep("executeCoding", "send_reviewer", "codex", "review_code", "wait_reviewer")

executeCoding_waitReviewer ==
  /\ At("executeCoding", "wait_reviewer")
  /\ LET j == Job(sessionName(main.state.workDir, "codex"), "review_code",
                  main.state.iteration)
     IN IF [j EXCEPT !.done = TRUE] \in jobs
          THEN main' = [main EXCEPT !.pc = "loop",
                 !.approved = isApproved(readOrEmpty(files.codeReview),
                                         "CODE_APPROVED")]
          ELSE Goto("catch")
  /\ UNCHANGED <<aux, stateFiles, clock, test, alive, terminalProc, files,
                 progress,
                 jobs, owned, run, epoch, result>>

\* variant: the flag follows the reviewer's verdict
executeCoding_finish_onlyApproved ==
  /\ At("executeCoding", "finish")
  /\ stop({Coder(main.state.workDir), Reviewer(main.state.workDir)})
  /\ saveState([main.state EXCEPT !.activeSessions = <<>>,
                                  !.codingComplete = main.approved])
  /\ result' = Returned("executeCoding", main.approved, main.approved)
  /\ main' = IdleMain
  /\ UNCHANGED <<aux, test, files, progress, owned, run, epoch>>

executeCoding_finish ==
  /\ At("executeCoding", "finish")
  /\ stop({Coder(main.state.workDir), Reviewer(main.state.workDir)})
  /\ saveState([main.state EXCEPT !.activeSessions = <<>>,
                                  !.codingComplete = TRUE])
  /\ result' = Returned("executeCoding", main.approved, main.approved)
  /\ main' = IdleMain
  /\ UNCHANGED <<aux, test, files, progress, owned, run, epoch>>

executeCoding_catch ==
  /\ At("executeCoding", "catch")
  /\ stop({Coder(main.state.workDir), Reviewer(main.state.workDir)})
  /\ saveState([main.state EXCEPT !.activeSessions = <<>>, !.currentPhase = NULL])
  /\ result' = Thrown("executeCoding")
  /\ main' = IdleMain
  /\ UNCHANGED <<aux, test, files, progress, owned, run, epoch>>

executeCoding ==
  \/ executeCoding_begin \/ executeCoding_startCoder \/ executeCoding_startReviewer
  \/ executeCoding_loop \/ executeCoding_sendCoder \/ executeCoding_waitCoder
  \/ executeCoding_sendReviewer \/ executeCoding_waitReviewer
  \/ executeCoding_finish \/ executeCoding_catch

\* ------------------------------------------------------------- executeTesting
Tester(projectDir) == Agent("tester", "claude", projectDir)

\* hand executeTesting's outcome to its caller: the handler, or executeDebugging
\* (const testResult = await executeTesting(); fixed = testResult.success)
TestReturns(success) ==
  /\ test' = IdleTest
  /\ IF test.caller = "executeDebugging"
       THEN /\ main' = [main EXCEPT !.pc = "loop", !.approved = success]
            /\ result' = result
       ELSE /\ result' = Returned("executeTesting", success, FALSE)
            /\ main' = main

TestThrows ==
  /\ test' = IdleTest
  /\ IF test.caller = "executeDebugging"
       THEN /\ main' = [main EXCEPT !.pc = "catch"]
            /\ result' = result
       ELSE /\ result' = Thrown("executeTesting")
            /\ main' = main

\* the entry of executeTesting, for the caller `by`
TestEntry(by) ==
  LET loaded == loadState(NULL)
      state == [loaded EXCEPT !.currentPhase = "testing", !.activeSessions = <<>>]
  IN IF ~loaded.codingComplete
       THEN /\ IF by = "executeDebugging"
                 THEN /\ main' = [main EXCEPT !.pc = "loop", !.approved = FALSE]
                      /\ result' = result
                 ELSE /\ result' = Returned("executeTesting", FALSE, FALSE)
                      /\ main' = main
            /\ UNCHANGED <<stateFiles, clock, test>>
       ELSE /\ saveState(state)
            /\ test' = [pc |-> "start", state |-> Stamped(state), caller |-> by]
            /\ IF by = "executeDebugging"
                 THEN UNCHANGED <<main, result>>
                 ELSE main' = main /\ result' = NoResult

executeTesting_begin ==
  /\ Idle /\ run < MaxRuns
  /\ TestEntry("handler")
  /\ run' = run + 1 /\ epoch' = epoch + 1 /\ owned' = {}
  /\ UNCHANGED <<aux, alive, terminalProc, files, progress, jobs>>

executeTesting_start ==
  /\ test.pc = "start"
  /\ \/ /\ start({Tester(test.state.workDir)}, {Tester(test.state.workDir)})
        /\ LET state == [test.state EXCEPT !.activeSessions =
                           Append(@, getSessionName(Tester(test.state.workDir)))]
           IN /\ saveState(state)
              /\ test' = [test EXCEPT !.pc = "send", !.state = Stamped(state)]
     \/ /\ start({Tester(test.state.workDir)}, {})
        /\ test' = [test EXCEPT !.pc = "catch"]
        /\ UNCHANGED <<stateFiles, clock>>
  /\ UNCHANGED <<aux, main, files, progress, run, epoch, result>>

executeTesting_send ==
  /\ test.pc = "send"
  /\ \/ /\ jobs' = jobs \cup {Job(sessionName(test.state.workDir, "claude"),
                                  "testing_complete", 1)}
        /\ test' = [test EXCEPT !.pc = "wait"]
     \/ /\ jobs' = jobs
        /\ test' = [test EXCEPT !.pc = "catch"]
  /\ UNCHANGED <<aux, stateFiles, clock, main, alive, terminalProc, files,
                 progress,
                 owned, run, epoch, result>>

executeTesting_wait ==
  /\ test.pc = "wait"
  /\ IF progressEventFound("claude", "testing_complete", 1)
       THEN test' = [test EXCEPT !.pc = "finish"]
       ELSE test' = [test EXCEPT !.pc = "catch"]
  /\ UNCHANGED <<aux, stateFiles, clock, main, alive, terminalProc, files,
                 progress,
                 jobs, owned, run, epoch, result>>

\* variant: any results file counts as a pass
testsPassed_anyResults(testResults) == testResults.exists

testsPassed(testResults) == includes(readOrEmpty(testResults), "TESTS_PASS")

executeTesting_finish ==
  /\ test.pc = "finish"
  /\ stop({Tester(test.state.workDir)})
  /\ saveState([test.state EXCEPT
                  !.activeSessions = <<>>,
                  !.testingComplete = IF testsPassed(files.testResults)
                                        THEN TRUE ELSE @])
  /\ TestReturns(testsPassed(files.testResults))
  /\ UNCHANGED <<aux, files, progress, owned, run, epoch>>

executeTesting_catch ==
  /\ test.pc = "catch"
  /\ stop({Tester(test.state.workDir)})
  /\ saveState([test.state EXCEPT !.activeSessions = <<>>, !.currentPhase = NULL])
  /\ TestThrows
  /\ UNCHANGED <<aux, files, progress, owned, run, epoch>>

executeTesting ==
  \/ executeTesting_begin \/ executeTesting_start \/ executeTesting_send
  \/ executeTesting_wait \/ executeTesting_finish \/ executeTesting_catch

\* ----------------------------------------------------------- executeDebugging
Analyzer(projectDir) == Agent("analyzer", "codex", projectDir)
Fixer(projectDir) == Agent("fixer", "claude", projectDir)

\* variant: the phase is recorded before the prerequisite is looked at
executeDebugging_begin_savesFirst ==
  /\ Idle /\ run < MaxRuns
  /\ \E maxIterations \in 1..MaxIterArg :
       LET loaded == loadState(NULL)
           state == [loaded EXCEPT !.currentPhase = "debugging", !.iteration = 0,
                                   !.activeSessions = <<>>]
       IN /\ saveState(state)
          /\ IF ~loaded.codingComplete
               THEN /\ result' = Returned("executeDebugging", FALSE, FALSE)
                    /\ main' = main
               ELSE /\ main' = [fn |-> "executeDebugging", pc |-> "loop",
                                state |-> Stamped(state),
                                maxIterations |-> maxIterations,
                                approved |-> FALSE, k |-> 0]
                    /\ result' = NoResult
  /\ run' = run + 1 /\ epoch' = epoch + 1 /\ owned' = {}
  /\ UNCHANGED <<aux, test, alive, terminalProc, files, progress, jobs>>

executeDebugging_begin ==
  /\ Idle /\ run < MaxRuns
  /\ \E maxIterations \in 1..MaxIterArg :
       LET loaded == loadState(NULL)
           state == [loaded EXCEPT !.currentPhase = "debugging", !.iteration = 0,
                                   !.activeSessions = <<>>]
       IN IF ~loaded.codingComplete
            THEN /\ result' = Returned("executeDebugging", FALSE, FALSE)
                 /\ UNCHANGED <<stateFiles, clock, main>>
            ELSE /\ saveState(state)
                 /\ main' = [fn |-> "executeDebugging", pc |-> "loop",
                             state |-> Stamped(state),
                             maxIterations |-> maxIterations,
                             approved |-> FALSE, k |-> 0]
                 /\ result' = NoResult
  /\ run' = run + 1 /\ epoch' = epoch + 1 /\ owned' = {}
  /\ UNCHANGED <<aux, test, alive, terminalProc, files, progress, jobs>>

\* main.approved is the local `fixed`
executeDebugging_loop ==
  /\ At("executeDebugging", "loop")
  /\ IF ~main.approved /\ main.state.iteration < main.maxIterations
       THEN LET state == [main.state EXCEPT !.iteration = @ + 1]
            IN /\ saveState(state)
               /\ main' = [main EXCEPT !.pc = "start_analyzer",
                                       !.state = Stamped(state)]
       ELSE /\ Goto("finish")
            /\ UNCHANGED <<stateFiles, clock>>
  /\ UNCHANGED <<aux, test, alive, terminalProc, files, progress, jobs,
                 owned, run, epoch,
                 result>>

\* await agent.start(); state.activeSessions = [name]; saveState(state)
StartSolo(fn, p, agent, next) ==
  /\ At(fn, p)
  /\ \/ /\ start({agent}, {agent})
        /\ LET state == [main.state EXCEPT
                           !.activeSessions = <<getSessionName(agent)>>]
           IN /\ saveState(state)
              /\ main' = [main EXCEPT !.pc = next, !.state = Stamped(state)]
     \/ /\ start({agent}, {})
        /\ Goto("catch")
        /\ UNCHANGED <<stateFiles, clock>>
  /\ UNCHANGED <<aux, test, files, progress, run, epoch, result>>

executeDebugging_startAnalyzer ==
  StartSolo("executeDebugging", "start_analyzer", Analyzer(main.state.workDir),
            "send_analyzer")

executeDebugging_sendAnalyzer ==
  SendStep("executeDebugging", "send_analyzer", "codex", "analyze", "wait_analyzer")

\* await agent.waitForCompletion(); await agent.stop()
WaitThenStop(fn, p, agent, action, next) ==
  /\ At(fn, p)
  /\ LET j == Job(getSessionName(agent), action, main.state.iteration)
     IN \/ /\ [j EXCEPT !.done = TRUE] \in jobs \/ agent.type = "claude"
           /\ stop({agent})
           /\ Goto(next)
        \/ /\ [j EXCEPT !.done = TRUE] \notin jobs
           /\ Goto("catch")
           /\ UNCHANGED <<alive, terminalProc, jobs>>
  /\ UNCHANGED <<aux, stateFiles, clock, test, files, progress, owned, run,
                 epoch, result>>

executeDebugging_waitAnalyzer ==
  WaitThenStop("executeDebugging", "wait_analyzer", Analyzer(main.state.workDir),
               "analyze", "start_fixer")

executeDebugging_startFixer ==
  StartSolo("executeDebugging", "start_fixer", Fixer(main.state.workDir),
            "send_fixer")

executeDebugging_sendFixer ==
  SendStep("executeDebugging", "send_fixer", "claude", "fix", "wait_fixer")

executeDebugging_waitFixer ==
  WaitThenStop("executeDebugging", "wait_fixer", Fixer(main.state.workDir),
               "fix", "retest")

\* const testResult = await executeTesting()
executeDebugging_retest ==
  /\ At("executeDebugging", "retest")
  /\ TestEntry("executeDebugging")
  /\ epoch' = epoch + 1
  /\ UNCHANGED <<aux, alive, terminalProc, files, progress, jobs, owned, run>>

executeDebugging_finish ==
  /\ At("executeDebugging", "finish")
  /\ saveState([main.state EXCEPT !.activeSessions = <<>>,
                                  !.debuggingComplete = main.approved])
  /\ result' = Returned("executeDebugging", main.approved, FALSE)
  /\ main' = IdleMain
  /\ UNCHANGED <<aux, test, alive, terminalProc, files, progress, jobs,
                 owned, run, epoch>>

\* the catch block stops no agent: analyzer and fixer are locals of the loop body
executeDebugging_catch ==
  /\ At("executeDebugging", "catch")
  /\ saveState([main.state EXCEPT !.activeSessions = <<>>, !.currentPhase = NULL])
  /\ result' = Thrown("executeDebugging")
  /\ main' = IdleMain
  /\ UNCHANGED <<aux, test, alive, terminalProc, files, progress, jobs,
                 owned, run, epoch>>

executeDebugging ==
  \/ executeDebugging_begin \/ executeDebugging_loop
  \/ executeDebugging_startAnalyzer \/ executeDebugging_sendAnalyzer
  \/ executeDebugging_waitAnalyzer \/ executeDebugging_startFixer
  \/ executeDebugging_sendFixer \/ executeDebugging_waitFixer
  \/ executeDebugging_retest \/ executeDebugging_finish \/ executeDebugging_catch

\* ----------------------------------------------- parallel prompts and waits
\* await Promise.all([claude.sendMessage(..), gemini.sendMessage(..), codex.sendMessage(..)])
SendAllStep(fn, p, action, next) ==
  /\ At(fn, p)
  /\ \E ok \in SUBSET AgentType :
       /\ jobs' = jobs \cup {Job(sessionName(main.state.workDir, t), action,
                                 main.state.iteration) : t \in ok}
       /\ Goto(IF ok = AgentType THEN next ELSE "catch")
  /\ UNCHANGED <<aux, stateFiles, clock, test, alive, terminalProc, files,
                 progress,
                 owned, run, epoch, result>>

\* await Promise.all([x.waitForProgressEvent(..) for the three agents]); then
\* state.iteration = nextIteration; saveState(state) when nextIteration > 0
WaitAllStep(fn, p, action, nextIteration, next) ==
  /\ At(fn, p)
  /\ IF \A t \in AgentType : progressEventFound(t, action, main.state.iteration)
       THEN IF nextIteration > 0
              THEN LET state == [main.state EXCEPT !.iteration = nextIteration]
                   IN /\ saveState(state)
                      /\ main' = [main EXCEPT !.pc = next, !.state = Stamped(state)]
              ELSE Goto(next) /\ UNCHANGED <<stateFiles, clock>>
       ELSE Goto("catch") /\ UNCHANGED <<stateFiles, clock>>
  /\ UNCHANGED <<aux, test, alive, terminalProc, files, progress, jobs,
                 owned, run, epoch,
                 result>>

\* start the three agents, save the session list, then state.iteration = 1 and
\* save again
StartTrioIter1(fn, role, next) ==
  /\ At(fn, "start")
  /\ \E ok \in SUBSET Trio(role, main.state.workDir) :
       /\ start(Trio(role, main.state.workDir), ok)
       /\ IF ok = Trio(role, main.state.workDir)
            THEN LET state == [main.state EXCEPT
                                 !.activeSessions = SessionList(main.state.workDir),
                                 !.iteration = 1]
                 IN /\ stateFiles' =
                         [stateFiles EXCEPT
                            ![state.workDir] = <<[state EXCEPT !.lastUpdate = clock + 1]>>,
                            ![GLOBAL] = <<[state EXCEPT !.lastUpdate = clock + 1]>>]
                    /\ clock' = clock + 2
                    /\ main' = [main EXCEPT !.pc = next,
                                  !.state = [state EXCEPT !.lastUpdate = clock + 1]]
            ELSE /\ Goto("catch")
                 /\ UNCHANGED <<stateFiles, clock>>
  /\ UNCHANGED <<aux, test, files, progress, run, epoch, result>>

\* ------------------------------------------------------------ executeDiscovery
executeDiscovery_begin ==
  /\ Idle /\ run < MaxRuns
  /\ \E maxIterations \in 1..MaxIterArg, workDir \in WorkDirArgs :
       LET projectDir == getProjectDir(workDir)
           state == [loadState(projectDir) EXCEPT
                       !.currentPhase = "discovery", !.workDir = projectDir,
                       !.iteration = 0, !.activeSessions = <<>>,
                       !.discoveryComplete = FALSE, !.selectedFeature = NULL]
       IN /\ saveState(state)
          /\ main' = [fn |-> "executeDiscovery", pc |-> "start",
                      state |-> Stamped(state), maxIterations |-> maxIterations,
                      approved |-> FALSE, k |-> 0]
  /\ files' = [files EXCEPT !.consensusReviewGemini = NoDoc,
                            !.consensusReviewCodex = NoDoc]
  /\ progress' = {}
  /\ run' = run + 1 /\ epoch' = epoch + 1 /\ owned' = {} /\ result' = NoResult
  /\ UNCHANGED <<aux, test, alive, terminalProc, jobs>>

executeDiscovery_start == StartTrioIter1("executeDiscovery", "discover", "send_explore")

executeDiscovery_sendExplore ==
  SendAllStep("executeDiscovery", "send_explore", "explore_done", "wait_explore")

executeDiscovery_waitExplore ==
  WaitAllStep("executeDiscovery", "wait_explore", "explore_done", 2, "send_propose")

executeDiscovery_sendPropose ==
  SendAllStep("executeDiscovery", "send_propose", "propose_done", "wait_propose")

executeDiscovery_waitPropose ==
  WaitAllStep("executeDiscovery", "wait_propose", "propose_done", 0, "loop")

\* main.k is consensusIteration; the review files are not deleted here
executeDiscovery_loop ==
  /\ At("executeDiscovery", "loop")
  /\ IF ~main.approved /\ main.k < main.maxIterations
       THEN LET state == [main.state EXCEPT !.iteration = 2 + main.k + 1]
            IN /\ saveState(state)
               /\ main' = [main EXCEPT !.pc = "send_claude", !.k = @ + 1,
                                       !.state = Stamped(state)]
       ELSE /\ Goto("finish")
            /\ UNCHANGED <<stateFiles, clock>>
  /\ UNCHANGED <<aux, test, alive, terminalProc, files, progress, jobs,
                 owned, run, epoch,
                 result>>

executeDiscovery_sendClaude ==
  SendStep("executeDiscovery", "send_claude", "claude", "consensus_written",
           "wait_claude")

executeDiscovery_waitClaude ==
  WaitStep("executeDiscovery", "wait_claude", "claude", "consensus_written",
           "send_gemini")

executeDiscovery_sendGemini ==
  SendStep("executeDiscovery", "send_gemini", "gemini", "consensus_reviewed",
           "wait_gemini")

executeDiscovery_waitGemini ==
  WaitStep("executeDiscovery", "wait_gemini", "gemini", "consensus_reviewed",
           "send_codex")

executeDiscovery_sendCodex ==
  SendStep("executeDiscovery", "send_codex", "codex", "consensus_reviewed",
           "wait_codex")

executeDiscovery_waitCodex ==
  /\ At("executeDiscovery", "wait_codex")
  /\ IF progressEventFound("codex", "consensus_reviewed", main.state.iteration)
       THEN main' = [main EXCEPT !.pc = "loop",
                       !.approved = consensus(files.consensusReviewGemini,
                                              files.consensusReviewCodex)]
       ELSE Goto("catch")
  /\ UNCHANGED <<aux, stateFiles, clock, test, alive, terminalProc, files,
                 progress,
                 jobs, owned, run, epoch, result>>

\* returns success: true whatever the loop decided; the report says
\* "Consensus reached!" only when it was
executeDiscovery_finish ==
  /\ At("executeDiscovery", "finish")
  /\ stop(Trio("discover", main.state.workDir))
  /\ saveState([main.state EXCEPT !.activeSessions = <<>>, !.currentPhase = NULL,
                                  !.discoveryComplete = TRUE])
  /\ result' = Returned("executeDiscovery", TRUE, main.approved)
  /\ main' = IdleMain
  /\ files' = Aged(files)
  /\ UNCHANGED <<aux, test, progress, owned, run, epoch>>

executeDiscovery_catch ==
  /\ At("executeDiscovery", "catch")
  /\ stop(Trio("discover", main.state.workDir))
  /\ saveState([main.state EXCEPT !.activeSessions = <<>>, !.currentPhase = NULL])
  /\ result' = Thrown("executeDiscovery")
  /\ main' = IdleMain
  /\ files' = Aged(files)
  /\ UNCHANGED <<aux, test, progress, owned, run, epoch>>

executeDiscovery ==
  \/ executeDiscovery_begin \/ executeDiscovery_start
  \/ executeDiscovery_sendExplore \/ executeDiscovery_waitExplore
  \/ executeDiscovery_sendPropose \/ executeDiscovery_waitPropose
  \/ executeDiscovery_loop
  \/ executeDiscovery_sendClaude \/ executeDiscovery_waitClaude
  \/ executeDiscovery_sendGemini \/ executeDiscovery_waitGemini
  \/ executeDiscovery_sendCodex \/ executeDiscovery_waitCodex
  \/ executeDiscovery_finish \/ executeDiscovery_catch

\* ------------------------------------------------------------- executeResearch
executeResearch_begin ==
  /\ Idle /\ run < MaxRuns
  /\ \E question \in Tasks, workDir \in WorkDirArgs :
       LET projectDir == getProjectDir(workDir)
           state == [loadState(projectDir) EXCEPT
                       !.currentPhase = "research", !.task = question,
                       !.workDir = projectDir, !.iteration = 0,
                       !.activeSessions = <<>>]
       IN /\ saveState(state)
          /\ main' = [fn |-> "executeResearch", pc |-> "start",
                      state |-> Stamped(state), maxIterations |-> 0,
                      approved |-> FALSE, k |-> 0]
  /\ progress' = {}
  /\ run' = run + 1 /\ epoch' = epoch + 1 /\ owned' = {} /\ result' = NoResult
  /\ UNCHANGED <<aux, test, alive, terminalProc, files, jobs>>

executeResearch_start == StartTrioIter1("executeResearch", "research", "send_gather")

executeResearch_sendGather ==
  SendStep("executeResearch", "send_gather", "claude", "gather_done", "wait_gather")

executeResearch_waitGather ==
  /\ At("executeResearch", "wait_gather")
  /\ IF progressEventFound("claude", "gather_done", 1)
       THEN LET state == [main.state EXCEPT !.iteration = 2]
            IN /\ saveState(state)
               /\ main' = [main EXCEPT !.pc = "send_analyze", !.state = Stamped(state)]
       ELSE Goto("catch") /\ UNCHANGED <<stateFiles, clock>>
  /\ UNCHANGED <<aux, test, alive, terminalProc, files, progress, jobs,
                 owned, run, epoch,
                 result>>

executeResearch_sendAnalyze ==
  SendAllStep("executeResearch", "send_analyze", "analyze_done", "wait_analyze")

executeResearch_waitAnalyze ==
  WaitAllStep("executeResearch", "wait_analyze", "analyze_done", 3, "send_synthesize")

executeResearch_sendSynthesize ==
  SendStep("executeResearch", "send_synthesize", "claude", "synthesize_done",
           "wait_synthesize")

executeResearch_waitSynthesize ==
  WaitStep("executeResearch", "wait_synthesize", "claude", "synthesize_done", "finish")

executeResearch_finish ==
  /\ At("executeResearch", "finish")
  /\ stop(Trio("research", main.state.workDir))
  /\ saveState([main.state EXCEPT !.activeSessions = <<>>, !.currentPhase = NULL])
  /\ result' = Returned("executeResearch", TRUE, FALSE)
  /\ main' = IdleMain
  /\ UNCHANGED <<aux, test, files, progress, owned, run, epoch>>

executeResearch_catch ==
  /\ At("executeResearch", "catch")
  /\ stop(Trio("research", main.state.workDir))
  /\ saveState([main.state EXCEPT !.activeSessions = <<>>, !.currentPhase = NULL])
  /\ result' = Thrown("executeResearch")
  /\ main' = IdleMain
  /\ UNCHANGED <<aux, test, files, progress, owned, run, epoch>>

executeResearch ==
  \/ executeResearch_begin \/ executeResearch_start
  \/ executeResearch_sendGather \/ executeResearch_waitGather
  \/ executeResearch_sendAnalyze \/ executeResearch_waitAnalyze
  \/ executeResearch_sendSynthesize \/ executeResearch_waitSynthesize
  \/ executeResearch_finish \/ executeResearch_catch

\* ------------------------------------------------------- the agents (environment)
EventActions == {"plan_written", "review_written", "summary_written",
                 "testing_complete", "explore_done", "propose_done",
                 "consensus_written", "consensus_reviewed", "gather_done",
                 "analyze_done", "synthesize_done"}

\* what an agent may write to its artifact file while working on job j
Written(j) ==
  CASE j.action = "plan_written" ->
         {[files EXCEPT !.plan = c] : c \in {"ok", "short"}}
    [] j.action = "review_written" /\ j.session[2] = "gemini" ->
         {[files EXCEPT !.reviewGemini = DocAt(c, j.iteration)] : c \in ReviewDocs}
    [] j.action = "review_written" /\ j.session[2] = "codex" ->
         {[files EXCEPT !.reviewCodex = DocAt(c, j.iteration)] : c \in ReviewDocs}
    [] j.action = "consensus_reviewed" /\ j.session[2] = "gemini" ->
         {[files EXCEPT !.consensusReviewGemini = DocAt(c, j.iteration)] : c \in ReviewDocs}
    [] j.action = "consensus_reviewed" /\ j.session[2] = "codex" ->
         {[files EXCEPT !.consensusReviewCodex = DocAt(c, j.iteration)] : c \in ReviewDocs}
    [] j.action = "review_code" ->
         {[files EXCEPT !.codeReview = Doc(c)] : c \in CodeReviewDocs}
    [] j.action = "testing_complete" ->
         {[files EXCEPT !.testResults = Doc(c)] : c \in TestDocs}
    [] OTHER -> {}

\* a live agent writes the artifact its prompt asks for
AgentWritesArtifact ==
  /\ \E j \in jobs :
       /\ j.session \in alive /\ ~j.done
       /\ \E f \in Written(j) : f # files /\ files' = f
  /\ UNCHANGED <<aux, stateFiles, clock, main, test, alive, terminalProc,
                 progress,
                 jobs, owned, run, epoch, result>>

\* a live agent appends the progress line its prompt asks for
AgentAppendsEvent ==
  /\ \E j \in jobs :
       /\ j.session \in alive /\ j.action \in EventActions
       /\ progress' = progress \cup {Event(j.session[2], j.action, j.iteration)}
       /\ jobs' = jobs \ {j}
  /\ UNCHANGED <<aux, stateFiles, clock, main, test, alive, terminalProc, files,
                 owned, run, epoch, result>>

\* a live agent finishes its reply to a prompt that asks for no progress line
AgentAnswers ==
  /\ \E j \in jobs :
       /\ j.session \in alive /\ j.action \notin EventActions /\ ~j.done
       /\ jobs' = (jobs \ {j}) \cup {[j EXCEPT !.done = TRUE]}
  /\ UNCHANGED <<aux, stateFiles, clock, main, test, alive, terminalProc, files,
                 progress, owned, run, epoch, result>>

\* ---------------------------------------------------------------- Spec
NoFiles == [plan |-> "absent", reviewGemini |-> NoDoc, reviewCodex |-> NoDoc,
            codeReview |-> NoDoc, testResults |-> NoDoc,
            consensusReviewGemini |-> NoDoc, consensusReviewCodex |-> NoDoc]

Disk0 == [loc \in ProjectDirs \cup {GLOBAL} |-> <<>>]
Proj == CHOOSE d \in WorkDirArgs : TRUE

\* nothing on disk: a first start of the server
InitFresh ==
  /\ stateFiles = Disk0
  /\ clock = 1
  /\ files = NoFiles
  /\ progress = {}

\* the disk as one approved planning run (one iteration) leaves it
PlannedState ==
  [defaultStateAt(4) EXCEPT !.currentPhase = "planning", !.task = "task",
     !.workDir = Proj, !.iteration = 1, !.planningComplete = TRUE]
PlannedFiles ==
  [NoFiles EXCEPT !.plan = "ok", !.reviewGemini = Doc(<<"text", "APPROVED">>),
                  !.reviewCodex = Doc(<<"text", "APPROVED">>)]
PlannedProgress ==
  {[agent |-> "claude", action |-> "plan_written", iteration |-> 1, epoch |-> 0],
   [agent |-> "gemini", action |-> "review_written", iteration |-> 1, epoch |-> 0],
   [agent |-> "codex", action |-> "review_written", iteration |-> 1, epoch |-> 0]}

InitPlanned ==
  /\ stateFiles = [Disk0 EXCEPT ![Proj] = <<PlannedState>>, ![GLOBAL] = <<PlannedState>>]
  /\ clock = 5
  /\ files = PlannedFiles
  /\ progress = PlannedProgress

\* the disk as that planning run and one approved coding run leave it
CodedState ==
  [PlannedState EXCEPT !.currentPhase = "coding", !.codingComplete = TRUE,
                       !.lastUpdate = 9]

InitCoded ==
  /\ stateFiles = [Disk0 EXCEPT ![Proj] = <<CodedState>>, ![GLOBAL] = <<CodedState>>]
  /\ clock = 10
  /\ files = [PlannedFiles EXCEPT !.codeReview = Doc(<<"CODE_APPROVED">>)]
  /\ progress = PlannedProgress

\* the server starts with no phase running and no session of its own; the disk
\* is fresh or holds what earlier runs of the pipeline left
InitServer ==
  /\ InitFresh \/ InitPlanned \/ InitCoded
  /\ main = IdleMain
  /\ test = IdleTest
  /\ alive = {}
  /\ terminalProc = {}
  /\ jobs = {}
  /\ owned = {}
  /\ run = 0
  /\ epoch = 0
  /\ result = NoResult
  /\ oracle = NULL /\ det = NULL /\ wait = NULL /\ tmux = NULL /\ store = NULL
  /\ sfs = NULL /\ plog = NULL /\ ids = NULL /\ wd = NULL
  /\ msg = NULL /\ par = NULL

Init == InitServer /\ tool = NULL

Next ==
  \/ executePlanning \/ executeCoding \/ executeTesting \/ executeDebugging
  \/ executeDiscovery \/ executeResearch
  \/ AgentWritesArtifact \/ AgentAppendsEvent \/ AgentAnswers

Spec == Init /\ [][Next]_vars


\* ------------------------------------------------------- properties of Spec
Delivered == Idle /\ result.kind # "none"
persisted == stateFiles[GLOBAL][1]

\* C1: when a phase executor hands its result or its error to the caller,
\* every session that invocation started has been stopped.
C1_SessionsStopped == Delivered => owned \cap alive = {}

C3_Prerequisites ==
  [][((alive' \ alive) # {} \/ ({j \in jobs' : ~j.done} \ jobs) # {})
       => IF test.pc # "idle"
            THEN test.state.codingComplete
            ELSE /\ main.fn = "executeCoding" => main.state.planningComplete
                 /\ main.fn = "executeDebugging" => main.state.codingComplete]_vars

\* coding was asked for on a disk without an approved plan and started nothing
C3_Witness ==
  /\ result = Returned("executeCoding", FALSE, FALSE)
  /\ ~loadState(NULL).planningComplete
  /\ owned = {} /\ jobs = {} /\ alive = {}

\* C4: in planning and discovery the consensus flag is raised only in an
\* iteration whose two review files both satisfy the approval oracle, and the
\* phase reports consensus only if the flag was raised.
C4_DualApproval ==
  [][/\ (/\ main'.fn \in {"executePlanning", "executeDiscovery"}
         /\ main'.approved /\ ~main.approved)
        => IF main.fn = "executePlanning"
             THEN /\ isApproved(readOrEmpty(files.reviewGemini), "APPROVED")
                  /\ isApproved(readOrEmpty(files.reviewCodex), "APPROVED")
             ELSE /\ isApproved(readOrEmpty(files.consensusReviewGemini), "APPROVED")
                  /\ isApproved(readOrEmpty(files.consensusReviewCodex), "APPROVED")
     /\ (/\ result'.fn \in {"executePlanning", "executeDiscovery"}
         /\ result'.consensus /\ result' # result)
        => main.approved]_vars

\* one reviewer approved, the other did not, and the phase reported no consensus
C4_Witness ==
  /\ result.fn = "executePlanning" /\ result.kind = "return" /\ ~result.consensus
  /\ isApproved(readOrEmpty(files.reviewGemini), "APPROVED")
  /\ files.reviewCodex.exists
  /\ ~isApproved(readOrEmpty(files.reviewCodex), "APPROVED")

\* C8: while a run of planning, discovery, research or testing (the re-test
\* inside debugging too) is under way, the progress log holds no event of
\* that phase from an earlier run, so its waits see current events only.
C8_CurrentEventsOnly ==
  /\ main.fn \in {"executePlanning", "executeDiscovery", "executeResearch"}
       => \A e \in progress : e.epoch = epoch
  /\ test.pc # "idle"
       => \A e \in progress : e.action = "testing_complete" => e.epoch = epoch

\* ================================================================ SpecOracle
\* the phase executors at rest, for the specifications that do not run them
PhasesAtRest ==
  /\ stateFiles = Disk0 /\ clock = 1 /\ files = NoFiles /\ progress = {}
  /\ main = IdleMain /\ test = IdleTest /\ alive = {} /\ terminalProc = {}
  /\ jobs = {} /\ owned = {} /\ run = 0 /\ epoch = 0 /\ result = NoResult

Documents == UNION {[1..n -> Tokens] : n \in 0..MaxDocLen}
Markers == {"APPROVED", "CODE_APPROVED"}

InitOracle ==
  /\ oracle \in [file : {NoDoc} \cup {Doc(c) : c \in Documents},
                 marker : Markers, verdict : {"pending"}]
  /\ det = NULL /\ wait = NULL /\ tmux = NULL /\ store = NULL
  /\ sfs = NULL /\ plog = NULL /\ ids = NULL /\ wd = NULL /\ tool = NULL
  /\ msg = NULL /\ par = NULL
  /\ PhasesAtRest

Verdict(file, marker) ==
  IF isApproved(readOrEmpty(file), marker) THEN "approved" ELSE "not-approved"

\* planning and discovery: approved = includes("APPROVED") && !includes("NEEDS_REVISION")
judgeReview ==
  /\ oracle.verdict = "pending" /\ oracle.marker = "APPROVED"
  /\ oracle' = [oracle EXCEPT !.verdict = Verdict(oracle.file, "APPROVED")]
  /\ UNCHANGED <<pvars, det, wait, tmux, store,
                 sfs, plog, ids, wd, tool, msg, par>>

\* coding: approved = includes("CODE_APPROVED") && !includes("NEEDS_REVISION")
judgeCodeReview ==
  /\ oracle.verdict = "pending" /\ oracle.marker = "CODE_APPROVED"
  /\ oracle' = [oracle EXCEPT !.verdict = Verdict(oracle.file, "CODE_APPROVED")]
  /\ UNCHANGED <<pvars, det, wait, tmux, store,
                 sfs, plog, ids, wd, tool, msg, par>>

NextOracle == judgeReview \/ judgeCodeReview

SpecOracle == InitOracle /\ [][NextOracle]_vars

\* C5: a document is classified approved iff it contains the phase's marker and
\* does not contain NEEDS_REVISION; a document with both markers, a missing
\* document and an empty document are classified not-approved.
C5_Oracle ==
  oracle.verdict # "pending" =>
    LET c == oracle.file.content
        hasMarker == \E i \in 1..Len(c) : TokenIncludes(c[i], oracle.marker)
        hasRevision == \E i \in 1..Len(c) : c[i] = "NEEDS_REVISION"
    IN /\ oracle.verdict = "approved" <=> (hasMarker /\ ~hasRevision)
       /\ (hasMarker /\ hasRevision) => oracle.verdict = "not-approved"
       /\ (~oracle.file.exists \/ c = <<>>) => oracle.verdict = "not-approved"

\* a code review holding both markers has been classified
C5_Witness ==
  /\ oracle.verdict = "not-approved" /\ oracle.marker = "CODE_APPROVED"
  /\ oracle.file = Doc(<<"CODE_APPROVED", "text", "NEEDS_REVISION">>)

\* ================================================================ SpecDetect
\* One TmuxAgent and the CLI in its session.  A transcript entry is
\* [author, token, ts]: token n stands for "[ANS-n]" in the text, 0 for none;
\* the prompt sendMessage pastes carries the token of its request.
\* via, first (ghosts): what the wait that returned went by (the transcript
\* or the pane), the last 20 lines of the capture that passed the first
\* test of the pane fallback, and those of the capture taken after the delay.
FreshPane == [workedFor |-> FALSE, prompt |-> TRUE, busy |-> FALSE, at |-> 0]

InitDetect ==
  /\ det \in [type : AgentType, now : {0}, requests : {0},
              currentRequestId : {0}, messageStartTime : {0},
              entries : {{}}, mtime : {0}, pane : {FreshPane},
              pc : {"idle"}, outcome : {"none"}, basis : {0}, answered : {{}},
              via : {"none"}, first : {FreshPane}, second : {FreshPane}]
  /\ oracle = NULL /\ wait = NULL /\ tmux = NULL /\ store = NULL
  /\ sfs = NULL /\ plog = NULL /\ ids = NULL /\ wd = NULL /\ tool = NULL
  /\ msg = NULL /\ par = NULL
  /\ PhasesAtRest

\* requestId = generateRequestId(); messageStartTime = Date.now(); then the
\* prompt is pasted (the CLI logs it as a user entry) or a tmux command throws
sendMessage ==
  /\ det.pc = "idle" /\ det.requests < MaxRequests /\ det.now < MaxClock
  /\ LET rid == det.requests + 1
         sent == [det EXCEPT !.now = @ + 1, !.requests = rid,
                             !.currentRequestId = rid,
                             !.messageStartTime = det.now + 1,
                             !.outcome = "none", !.basis = 0]
     IN \/ det' = [sent EXCEPT
                     !.entries = @ \cup {[author |-> "user", token |-> rid,
                                          ts |-> det.now + 1]},
                     !.mtime = det.now + 1]
        \/ det' = [sent EXCEPT !.outcome = "error"]
  /\ UNCHANGED <<pvars, oracle, wait, tmux, store,
                 sfs, plog, ids, wd, tool, msg, par>>

\* variant: any entry carrying the token counts
checkCodexCompletion_anyAuthor(entries, messageStartTime, currentRequestId) ==
  \E e \in entries : e.ts >= messageStartTime /\ e.token = currentRequestId

\* entries older than the request are skipped; only an agent_message counts
checkCodexCompletion(entries, messageStartTime, currentRequestId) ==
  \E e \in entries :
    /\ e.ts >= messageStartTime
    /\ e.author = "agent"
    /\ e.token = currentRequestId

\* files not modified since the request are skipped; only a message of the
\* agent counts (type "gemini"; for claude, type "assistant")
checkGeminiSessionFile(entries, mtime, messageStartTime, currentRequestId) ==
  /\ mtime >= messageStartTime
  /\ \E e \in entries : e.author = "agent" /\ e.token = currentRequestId

checkClaudeSessionFile(entries, mtime, messageStartTime, currentRequestId) ==
  /\ mtime >= messageStartTime
  /\ \E e \in entries : e.author = "agent" /\ e.token = currentRequestId

\* lastLines.includes("Worked for") || (includes(prompt) && no busy marker)
paneLooksDone(pane) == pane.workedFor \/ (pane.prompt /\ ~pane.busy)

sessionComplete(d) ==
  CASE d.type = "codex" ->
         d.mtime > 0 /\ checkCodexCompletion(d.entries, d.messageStartTime,
                                             d.currentRequestId)
    [] d.type = "gemini" ->
         checkGeminiSessionFile(d.entries, d.mtime, d.messageStartTime,
                                d.currentRequestId)
    [] d.type = "claude" ->
         checkClaudeSessionFile(d.entries, d.mtime, d.messageStartTime,
                                d.currentRequestId)

\* ghost: when the entry the detector accepted was written (0: no such entry)
acceptedAt(d) ==
  LET stamps == {e.ts : e \in {x \in d.entries :
                                 x.author = "agent" /\ x.token = d.currentRequestId}}
  IN IF stamps = {} THEN 0 ELSE CHOOSE t \in stamps : \A u \in stamps : t <= u

waitForCompletion ==
  /\ det.pc = "idle"
  /\ IF det.currentRequestId = 0
       THEN det' = [det EXCEPT !.outcome = "no-request"]
       ELSE det' = [det EXCEPT !.pc = "waiting", !.outcome = "none"]
  /\ UNCHANGED <<pvars, oracle, wait, tmux, store,
                 sfs, plog, ids, wd, tool, msg, par>>

\* one pass of the wait loop that finds something: the transcript check, then
\* (claude only) the pane fallback
waitForCompletion_poll ==
  /\ det.pc = "waiting"
  /\ IF sessionComplete(det)
       THEN det' = [det EXCEPT !.pc = "idle", !.outcome = "returned",
                               !.basis = acceptedAt(det), !.via = "transcript"]
       ELSE /\ det.type = "claude" /\ paneLooksDone(det.pane)
            /\ det' = [det EXCEPT !.pc = "verify", !.first = det.pane]
  /\ UNCHANGED <<pvars, oracle, wait, tmux, store,
                 sfs, plog, ids, wd, tool, msg, par>>

\* after Bun.sleep(3000): no busy marker in the new capture -> return
waitForCompletion_verify ==
  /\ det.pc = "verify"
  /\ IF ~det.pane.busy
       THEN det' = [det EXCEPT !.pc = "idle", !.outcome = "returned",
                               !.basis = det.pane.at, !.via = "pane",
                               !.second = det.pane]
       ELSE det' = [det EXCEPT !.pc = "waiting"]
  /\ UNCHANGED <<pvars, oracle, wait, tmux, store,
                 sfs, plog, ids, wd, tool, msg, par>>

\* the deadline passes with no completion found
waitForCompletion_timeout ==
  /\ det.pc = "waiting" /\ ~sessionComplete(det)
  /\ det' = [det EXCEPT !.pc = "idle", !.outcome = "timeout"]
  /\ UNCHANGED <<pvars, oracle, wait, tmux, store,
                 sfs, plog, ids, wd, tool, msg, par>>

Received(d) == {e.token : e \in {x \in d.entries : x.author = "user"}}

\* the CLI shows a busy marker while it works on a prompt it received
AgentWorks ==
  /\ det.now < MaxClock /\ ~det.pane.busy
  /\ Received(det) \ det.answered # {}
  /\ \E scrolled \in BOOLEAN :
       det' = [det EXCEPT !.now = @ + 1, !.pane.busy = TRUE,
                          !.pane.workedFor = @ /\ ~scrolled]
  /\ UNCHANGED <<pvars, oracle, wait, tmux, store,
                 sfs, plog, ids, wd, tool, msg, par>>

\* the CLI finishes its reply to a prompt, ending it with the token or not
AgentReplies ==
  /\ det.now < MaxClock
  /\ \E r \in Received(det) \ det.answered : \E tok \in {0, r} :
       det' = [det EXCEPT
                 !.now = @ + 1,
                 !.entries = @ \cup {[author |-> "agent", token |-> tok,
                                      ts |-> det.now + 1]},
                 !.mtime = det.now + 1,
                 !.pane = [workedFor |-> TRUE, prompt |-> TRUE, busy |-> FALSE,
                           at |-> det.now + 1],
                 !.answered = @ \cup {r}]
  /\ UNCHANGED <<pvars, oracle, wait, tmux, store,
                 sfs, plog, ids, wd, tool, msg, par>>

NextDetect ==
  \/ sendMessage \/ waitForCompletion \/ waitForCompletion_poll
  \/ waitForCompletion_verify \/ waitForCompletion_timeout
  \/ AgentWorks \/ AgentReplies

SpecDetect == InitDetect /\ [][NextDetect]_vars

\* C6: a wait that returned normally did so on a signal produced at or after
\* the request's start time, and the agent had answered that request.
C6_FreshSignalOnly ==
  det.outcome = "returned" =>
    /\ det.basis >= det.messageStartTime
    /\ det.currentRequestId \in det.answered

EMPTY == -1
Instants == {850, 890, 1750}
AgentModes == {"active", "quiet", "down"}

\* let deadline = Date.now() + TIMEOUT_BASE; lastPaneContent = "";
\* lastActivityTime = Date.now()
InitWait ==
  /\ wait \in [now : {0}, deadline : {TIMEOUT_BASE}, lastPaneContent : {EMPTY},
               lastActivityTime : {0}, status : {"running"},
               agent : AgentModes, pane : {EMPTY, 0}, steady : {TRUE}]
  /\ oracle = NULL /\ det = NULL /\ tmux = NULL /\ store = NULL
  /\ sfs = NULL /\ plog = NULL /\ ids = NULL /\ wd = NULL /\ tool = NULL
  /\ msg = NULL /\ par = NULL
  /\ PhasesAtRest

\* variant: the deadline is pushed by EXTENSION from where it was
extendedDeadline_fromDeadline(deadline, t, lastActivityTime) ==
  IF deadline - t < TIMEOUT_EXTENSION /\ t - lastActivityTime < ACTIVITY_THRESHOLD
    THEN deadline + TIMEOUT_EXTENSION
    ELSE deadline

\* variant: the deadline is never pushed
extendedDeadline_never(deadline, t, lastActivityTime) == deadline

\* variant: the deadline is pushed whether or not the pane changed lately
extendedDeadline_always(deadline, t, lastActivityTime) ==
  IF deadline - t < TIMEOUT_EXTENSION THEN t + TIMEOUT_EXTENSION ELSE deadline

\* variant: a change counts as recent for a whole EXTENSION
extendedDeadline_slackThreshold(deadline, t, lastActivityTime) ==
  IF deadline - t < TIMEOUT_EXTENSION /\ t - lastActivityTime < TIMEOUT_EXTENSION
    THEN t + TIMEOUT_EXTENSION
    ELSE deadline

\* variant: a change seen at any time counts as recent
extendedDeadline_anyActivity(deadline, t, lastActivityTime) ==
  IF deadline - t < TIMEOUT_EXTENSION /\ lastActivityTime > 0
    THEN t + TIMEOUT_EXTENSION
    ELSE deadline

\* if (timeToDeadline < TIMEOUT_EXTENSION && timeSinceActivity < ACTIVITY_THRESHOLD)
\*   deadline = Date.now() + TIMEOUT_EXTENSION
extendedDeadline(deadline, t, lastActivityTime) ==
  IF deadline - t < TIMEOUT_EXTENSION /\ t - lastActivityTime < ACTIVITY_THRESHOLD
    THEN t + TIMEOUT_EXTENSION
    ELSE deadline

\* one pass of the loop: sleep, look for completion, then (inside try/catch)
\* capture the pane, note a change, extend the deadline
adaptiveWait_poll ==
  /\ wait.status = "running" /\ wait.now < wait.deadline /\ wait.now < MaxTime
  /\ LET t == wait.now + ACTIVITY_CHECK_INTERVAL
         currentPane == IF wait.agent = "active" THEN t ELSE wait.pane
         slept == [wait EXCEPT !.now = t, !.pane = currentPane]
         changed == currentPane # wait.lastPaneContent
         lastActivityTime == IF changed THEN t ELSE wait.lastActivityTime
     IN \/ wait' = [slept EXCEPT !.status = "returned"]
        \/ /\ wait.agent = "down"
           /\ wait' = [slept EXCEPT !.steady = FALSE]
        \/ /\ wait.agent # "down"
           /\ wait' = [slept EXCEPT
                         !.lastPaneContent = currentPane,
                         !.lastActivityTime = lastActivityTime,
                         !.deadline = extendedDeadline(wait.deadline, t,
                                                       lastActivityTime),
                         !.steady = @ /\ changed]
  /\ UNCHANGED <<pvars, oracle, det, tmux, store,
                 sfs, plog, ids, wd, tool, msg, par>>

\* while (Date.now() < deadline) fails: throw new Error("Timeout ...")
adaptiveWait_timeout ==
  /\ wait.status = "running" /\ wait.now >= wait.deadline
  /\ wait' = [wait EXCEPT !.status = "timeout"]
  /\ UNCHANGED <<pvars, oracle, det, tmux, store,
                 sfs, plog, ids, wd, tool, msg, par>>

AgentTurns ==
  /\ wait.status = "running" /\ wait.now \in Instants
  /\ \E m \in AgentModes \ {wait.agent} : wait' = [wait EXCEPT !.agent = m]
  /\ UNCHANGED <<pvars, oracle, det, tmux, store,
                 sfs, plog, ids, wd, tool, msg, par>>

NextWait == adaptiveWait_poll \/ adaptiveWait_timeout \/ AgentTurns

SpecWait == InitWait /\ [][NextWait]_vars

\* a poll after which the wait goes on
Polled == wait'.now # wait.now /\ wait'.status = "running"
ExtensionDue ==
  /\ wait.deadline - wait'.now < TIMEOUT_EXTENSION
  /\ wait'.now - wait'.lastActivityTime < ACTIVITY_THRESHOLD
Extended ==
  /\ wait'.deadline = wait'.now + TIMEOUT_EXTENSION
  /\ wait'.deadline > wait.deadline

\* C9 (as stated): at each poll the deadline becomes poll time + EXTENSION,
\* later than before, exactly when less than EXTENSION remains and the last
\* observed pane change is less than ACTIVITY_THRESHOLD old; otherwise it stays.
C9_EveryPoll ==
  [][Polled => IF ExtensionDue THEN Extended
                               ELSE wait'.deadline = wait.deadline]_vars

\* C9 (amended): the same rule at each poll whose pane capture succeeds; at a
\* poll whose capture fails the deadline stays.
C9_CapturedPolls ==
  [][Polled => IF wait.agent # "down" /\ ExtensionDue
                 THEN Extended
                 ELSE wait'.deadline = wait.deadline]_vars

\* the deadline has been pushed on the strength of a change seen at an earlier
\* poll: the pane is quiet and the wait is past the base deadline's window
C9_Witness ==
  /\ wait.status = "running" /\ wait.agent = "quiet"
  /\ wait.deadline = wait.now + TIMEOUT_EXTENSION
  /\ wait.lastActivityTime < wait.now
  /\ wait.deadline > TIMEOUT_BASE

\* C10: while every poll has captured a pane that differs from the one before
\* and no completion was found, the wait has not timed out.
C10_NoTimeoutWhileActive == wait.steady => wait.status # "timeout"

\* continuous activity has carried the wait ten extension lengths past the
\* base deadline
C10_Witness ==
  /\ wait.steady /\ wait.status = "running"
  /\ wait.now >= TIMEOUT_BASE + 10 * TIMEOUT_EXTENSION
  /\ wait.deadline = wait.now + TIMEOUT_EXTENSION

Max(a, b) == IF a >= b THEN a ELSE b

\* C12 (as stated): the timeout error comes no later than EXTENSION plus one
\* poll interval after the last observed pane change.
C12_GapWithinExtension ==
  wait.status = "timeout" =>
    wait.now <= wait.lastActivityTime + TIMEOUT_EXTENSION
                  + ACTIVITY_CHECK_INTERVAL

\* C12 (amended): the timeout error comes no later than the base deadline or
\* EXTENSION plus ACTIVITY_THRESHOLD after the last observed pane change,
\* whichever is later.
C12_GapBound ==
  wait.status = "timeout" =>
    wait.now <= Max(TIMEOUT_BASE,
                    wait.lastActivityTime + ACTIVITY_THRESHOLD
                      + TIMEOUT_EXTENSION)

\* an extended wait timed out more than EXTENSION plus a poll after the last
\* change it saw
C12_Witness ==
  /\ wait.status = "timeout" /\ wait.now > TIMEOUT_BASE
  /\ wait.now > wait.lastActivityTime + TIMEOUT_EXTENSION
                  + ACTIVITY_CHECK_INTERVAL

\* the executors with an iteration loop, and the number of iterations a frame
\* has started (discovery counts its consensus rounds in consensusIteration)
LoopFns == {"executePlanning", "executeCoding", "executeDebugging",
            "executeDiscovery"}
iterationsStarted(frame) ==
  IF frame.fn = "executeDiscovery" THEN frame.k ELSE frame.state.iteration

\* C13: in each iteration loop a step of the loop head starts iteration i + 1
\* exactly when no iteration so far ended with approval and i < maxIterations;
\* iterations are started nowhere else, the approval flag is not withdrawn,
\* and never more than maxIterations are started.
C13_IterationLoop ==
  [][main.fn \in LoopFns /\ main'.fn = main.fn =>
       LET i == iterationsStarted(main)
           started == iterationsStarted(main') # i
       IN /\ started => /\ main.pc = "loop"
                        /\ iterationsStarted(main') = i + 1
                        /\ ~main.approved /\ i < main.maxIterations
          /\ main.pc = "loop" /\ main' # main /\ ~started =>
               main.approved \/ i >= main.maxIterations
          /\ main.approved /\ main.pc = "loop" => main'.approved
          /\ iterationsStarted(main') <= main'.maxIterations]_vars

\* planning left its loop after one approved iteration although two were allowed
C13_Witness ==
  /\ main.fn = "executePlanning" /\ main.pc = "finish" /\ main.approved
  /\ main.state.iteration = 1 /\ main.maxIterations = 2

\* the gating flag of a phase in a state record
GatingFns == {"executePlanning", "executeCoding", "executeDiscovery"}
gatingFlag(state, fn) ==
  CASE fn = "executePlanning" -> state.planningComplete
    [] fn = "executeCoding" -> state.codingComplete
    [] OTHER -> state.discoveryComplete

\* C14 (as stated): whenever executePlanning, executeCoding or
\* executeDiscovery has returned without throwing, its gating flag is
\* persisted as true.
C14_EveryReturn ==
  result.kind = "return" /\ result.fn \in GatingFns =>
    /\ stateFiles[GLOBAL] # <<>>
    /\ gatingFlag(persisted, result.fn)

\* C14 (amended): whenever executePlanning, executeCoding or executeDiscovery
\* returns after its iteration loop, the step that returns persists the
\* gating flag as true, in the global file and in the project file, whether or
\* not approval was reached.
C14_FlagAfterLoop ==
  [][main.fn \in GatingFns /\ main'.fn = "idle" /\ result'.kind = "return" =>
       /\ result'.fn = main.fn
       /\ stateFiles'[GLOBAL] # <<>>
       /\ gatingFlag(stateFiles'[GLOBAL][1], main.fn)
       /\ stateFiles'[stateFiles'[GLOBAL][1].workDir] = stateFiles'[GLOBAL]]_vars

\* planning returned after two iterations without consensus, flag persisted
C14_Witness ==
  /\ result.kind = "return" /\ result.fn = "executePlanning"
  /\ ~result.consensus
  /\ persisted.iteration = 2 /\ persisted.planningComplete

\* the persisted flags, false while nothing has been saved
persistedFlag(disk, flag) == disk[GLOBAL] # <<>> /\ disk[GLOBAL][1][flag]
ResultsPass ==
  files.testResults.exists /\ includes(files.testResults.content, "TESTS_PASS")

\* C15: the persisted testingComplete turns true only in the step in which
\* executeTesting finds TESTS_PASS in an existing test-results file; the
\* `fixed` flag of executeDebugging is the verdict of the re-test just run,
\* the persisted debuggingComplete turns true only when executeDebugging
\* returns, and on that return it is persisted as true exactly if the last
\* re-test passed.
C15_FlagsOnSuccess ==
  [][/\ ~persistedFlag(stateFiles, "testingComplete")
          /\ persistedFlag(stateFiles', "testingComplete")
        => test.pc = "finish" /\ ResultsPass
     /\ main.fn = "executeDebugging" /\ main'.fn = main.fn
          /\ main'.approved # main.approved
        => /\ test.pc = "finish" /\ main'.approved = ResultsPass
           /\ main.state.iteration <= main.maxIterations
     /\ ~persistedFlag(stateFiles, "debuggingComplete")
          /\ persistedFlag(stateFiles', "debuggingComplete")
        => main.fn = "executeDebugging" /\ main.pc = "finish"
     /\ main.fn = "executeDebugging" /\ main'.fn = "idle"
          /\ result'.kind = "return"
        => persistedFlag(stateFiles', "debuggingComplete") = main.approved]_vars

\* debugging returned after a re-test that passed
C15_Witness ==
  /\ result.kind = "return" /\ result.fn = "executeDebugging" /\ result.success
  /\ persistedFlag(stateFiles, "debuggingComplete")
  /\ ResultsPass

\* a request is outstanding: a message was sent and the wait that followed it
\* has not confirmed it complete
outstanding(d) == d.currentRequestId # 0 /\ d.outcome # "returned"

\* C16: a call of waitForCompletion starts polling only if a request is
\* outstanding, and throws at once only if none is.
C16_ThrowsUnlessOutstanding ==
  [][det.pc = "idle" /\ det' # det =>
       /\ det'.pc = "waiting" => outstanding(det)
       /\ det'.outcome = "no-request" => ~outstanding(det)]_vars

\* ---------------------------------------------------------------- SpecAgent
\* One TmuxAgent object, the tmux session of its name and the terminal it
\* spawned.  A captured pane is the set of texts it shows; the two prompt
\* glyphs are named by their code points.  starts and stops count the calls;
\* captured (ghost) tells whether a poll of the current start() got a pane.
PaneTokens == {"U+276F", "Type your message", "YOLO mode", "context left",
               "U+203A", "banner"}
Panes == {p \in SUBSET PaneTokens : Cardinality(p) <= MaxPaneTokens}

\* variant: every kind waits for the claude glyph
getReadyIndicators_claudeOnly(type) == {"U+276F"}

getReadyIndicators(type) ==
  CASE type = "claude" -> {"U+276F"}
    [] type = "gemini" -> {"Type your message", "YOLO mode"}
    [] type = "codex" -> {"context left", "U+203A"}

\* for (indicator of readyIndicators) if (pane.includes(indicator)) return
paneReady(pane, type) == \E indicator \in getReadyIndicators(type) : indicator \in pane

InitAgent ==
  /\ tmux \in [type : AgentType, pc : {"idle"}, polls : {0},
               session : {FALSE}, pane : {{}}, handle : {FALSE},
               procAlive : {FALSE}, outcome : {"none"},
               starts : {0}, stops : {0}, captured : {FALSE}]
  /\ oracle = NULL /\ det = NULL /\ wait = NULL /\ store = NULL
  /\ sfs = NULL /\ plog = NULL /\ ids = NULL /\ wd = NULL /\ tool = NULL
  /\ msg = NULL /\ par = NULL
  /\ PhasesAtRest

\* start() up to the spawn: the session of that name is killed; i3-msg or the
\* spawn throws, or the terminal is spawned and its handle kept
TmuxAgent_start ==
  /\ tmux.pc = "idle" /\ tmux.starts < MaxStarts
  /\ LET killed == [tmux EXCEPT !.session = FALSE, !.pane = {},
                                !.procAlive = @ /\ ~tmux.session,
                                !.starts = @ + 1, !.polls = 0,
                                !.captured = FALSE]
     IN \/ tmux' = [killed EXCEPT !.outcome = "threw"]
        \/ tmux' = [killed EXCEPT !.handle = TRUE, !.procAlive = TRUE,
                                  !.pc = "grace", !.outcome = "none"]
  /\ UNCHANGED <<pvars, oracle, det, wait, store,
                 sfs, plog, ids, wd, tool, msg, par>>

\* await Bun.sleep(1000)
TmuxAgent_start_grace ==
  /\ tmux.pc = "grace"
  /\ tmux' = [tmux EXCEPT !.pc = "poll"]
  /\ UNCHANGED <<pvars, oracle, det, wait, store,
                 sfs, plog, ids, wd, tool, msg, par>>

\* one pass of the readiness loop: capture-pane fails when the session does
\* not exist (caught); the pass that finds no indicator at i = 59 ends the loop
\* and start() returns all the same
TmuxAgent_start_poll ==
  /\ tmux.pc = "poll" /\ tmux.polls < READY_POLLS
  /\ IF (tmux.session /\ paneReady(tmux.pane, tmux.type))
          \/ tmux.polls + 1 = READY_POLLS
       THEN tmux' = [tmux EXCEPT !.polls = @ + 1, !.pc = "idle",
                                 !.outcome = "returned",
                                 !.captured = @ \/ tmux.session]
       ELSE tmux' = [tmux EXCEPT !.polls = @ + 1,
                                 !.captured = @ \/ tmux.session]
  /\ UNCHANGED <<pvars, oracle, det, wait, store,
                 sfs, plog, ids, wd, tool, msg, par>>

\* variant: the terminal is killed, the session is left
TmuxAgent_stop_keepsSession ==
  /\ tmux.pc = "idle" /\ tmux.stops < MaxStops
  /\ tmux' = [tmux EXCEPT !.handle = FALSE, !.procAlive = FALSE,
                          !.outcome = "stopped", !.stops = @ + 1]
  /\ UNCHANGED <<pvars, oracle, det, wait, store,
                 sfs, plog, ids, wd, tool, msg, par>>

\* stop(): kill the terminal if a handle is held (errors swallowed), forget
\* the handle, kill the session (`|| true`: no error if there is none)
TmuxAgent_stop ==
  /\ tmux.pc = "idle" /\ tmux.stops < MaxStops
  /\ tmux' = [tmux EXCEPT !.handle = FALSE, !.procAlive = FALSE,
                          !.session = FALSE, !.pane = {},
                          !.outcome = "stopped", !.stops = @ + 1]
  /\ UNCHANGED <<pvars, oracle, det, wait, store,
                 sfs, plog, ids, wd, tool, msg, par>>

\* the spawned terminal gets its tmux session created
SessionCreated ==
  /\ tmux.procAlive /\ ~tmux.session
  /\ tmux' = [tmux EXCEPT !.session = TRUE]
  /\ UNCHANGED <<pvars, oracle, det, wait, store,
                 sfs, plog, ids, wd, tool, msg, par>>

\* the CLI redraws its pane
CliDraws ==
  /\ tmux.session
  /\ \E p \in Panes \ {tmux.pane} : tmux' = [tmux EXCEPT !.pane = p]
  /\ UNCHANGED <<pvars, oracle, det, wait, store,
                 sfs, plog, ids, wd, tool, msg, par>>

\* the CLI exits: its session and the terminal around it are gone
CliExits ==
  /\ tmux.session
  /\ tmux' = [tmux EXCEPT !.session = FALSE, !.pane = {}, !.procAlive = FALSE]
  /\ UNCHANGED <<pvars, oracle, det, wait, store,
                 sfs, plog, ids, wd, tool, msg, par>>

NextAgent ==
  \/ TmuxAgent_start \/ TmuxAgent_start_grace \/ TmuxAgent_start_poll
  \/ TmuxAgent_stop \/ SessionCreated \/ CliDraws \/ CliExits

SpecAgent == InitAgent /\ [][NextAgent]_vars

\* start() is not suspended forever between two of its own steps
SpecAgentFair ==
  /\ SpecAgent
  /\ WF_vars(TmuxAgent_start_grace) /\ WF_vars(TmuxAgent_start_poll)

\* C17: every call of stop() completes normally and leaves no session, no
\* terminal process and no handle; called when neither session nor terminal
\* exists (never started, already gone, already stopped) it leaves them so,
\* and called right after a stop() it changes nothing at all.
C17_StopIdempotent ==
  [][tmux'.stops = tmux.stops + 1 =>
       /\ tmux'.outcome = "stopped" /\ tmux'.pc = "idle"
       /\ ~tmux'.session /\ ~tmux'.procAlive /\ ~tmux'.handle
       /\ tmux'.pane = {}
       /\ tmux.outcome = "stopped" => tmux' = [tmux EXCEPT !.stops = @ + 1]
       /\ tmux'.starts = tmux.starts /\ tmux'.polls = tmux.polls]_vars

\* a started agent with a live session was stopped, and stopped again
C17_Witness ==
  /\ tmux.stops = 2 /\ tmux.starts = 1 /\ tmux.outcome = "stopped"
  /\ tmux.polls > 0 /\ tmux.polls < READY_POLLS

\* C18: once the terminal is spawned, start() returns normally, after the
\* grace period and at most READY_POLLS polls: a poll returns exactly if its
\* capture succeeds and shows a ready indicator of the session's kind, or if
\* it is the last one; start() never throws from the loop.
C18_StartReturns ==
  /\ [][tmux.pc = "poll" /\ tmux'.polls # tmux.polls =>
          /\ tmux'.polls = tmux.polls + 1 /\ tmux'.polls <= READY_POLLS
          /\ tmux'.outcome # "threw"
          /\ (tmux'.pc = "idle" /\ tmux'.outcome = "returned")
               <=> \/ tmux.session /\ tmux.pane \cap
                        (CASE tmux.type = "claude" -> {"U+276F"}
                           [] tmux.type = "gemini" ->
                                {"Type your message", "YOLO mode"}
                           [] OTHER -> {"context left", "U+203A"}) # {}
                   \/ tmux'.polls = READY_POLLS]_vars
  /\ (tmux.pc # "idle") ~> (tmux.pc = "idle" /\ tmux.outcome = "returned")

\* start() returned after all its polls although no capture ever succeeded
C18_Witness ==
  /\ tmux.pc = "idle" /\ tmux.outcome = "returned"
  /\ tmux.polls = READY_POLLS /\ ~tmux.captured

\* ---------------------------------------------------------------- SpecStore
\* loadState on state files of any content.  A JSON value is its type and,
\* for an object, the JavaScript type of each field PipelineState names
\* ("undefined": the field is missing); lastUpdate is read by nobody.
Fields == {"currentPhase", "task", "workDir", "iteration", "discoveryComplete",
           "selectedFeature", "planningComplete", "codingComplete",
           "testingComplete", "debuggingComplete", "activeSessions"}
Kinds == {"undefined", "null", "string", "number", "boolean", "array", "object"}

\* the field types of defaultState()
defaultKinds ==
  [f \in Fields |->
     CASE f \in {"currentPhase", "selectedFeature"} -> "null"
       [] f \in {"task", "workDir"} -> "string"
       [] f = "iteration" -> "number"
       [] f = "activeSessions" -> "array"
       [] OTHER -> "boolean"]

NoFields == [f \in Fields |-> "undefined"]
Objects ==
  {[f \in Fields |-> IF f \in DOMAIN g THEN g[f] ELSE defaultKinds[f]] :
     g \in UNION {[D -> Kinds] :
                    D \in {S \in SUBSET Fields : Cardinality(S) <= MaxOdd}}}
JsNull == [type |-> "null", fields |-> NoFields]
JsonValues ==
  {[type |-> t, fields |-> NoFields] :
     t \in {"null", "boolean", "number", "string", "array"}}
    \cup {[type |-> "object", fields |-> o] : o \in Objects}

\* file texts: not JSON at all (empty, truncated, garbage), or a JSON value
NotJson == [json |-> FALSE, value |-> JsNull]
Texts == {NotJson} \cup {[json |-> TRUE, value |-> v] : v \in JsonValues}

\* try { return JSON.parse(str) } catch { return null }
safeJsonParse(str) == IF str.json THEN str.value ELSE JsNull

\* variant: only the required fields are looked at
isValidState_requiredOnly(obj) ==
  /\ obj.type \in {"object", "array"}
  /\ LET state == obj.fields
     IN /\ state.currentPhase \in {"null", "string"}
        /\ state.task = "string"
        /\ state.iteration = "number"
        /\ state.planningComplete = "boolean"
        /\ state.codingComplete = "boolean"
        /\ state.testingComplete = "boolean"
        /\ state.debuggingComplete = "boolean"
        /\ state.activeSessions = "array"

\* !obj || typeof obj !== "object" -> false (an array is an object with none
\* of the fields); then the field tests
isValidState(obj) ==
  /\ obj.type \in {"object", "array"}
  /\ LET state == obj.fields
     IN /\ state.currentPhase \in {"null", "string"}
        /\ state.task = "string"
        /\ state.iteration = "number"
        /\ state.discoveryComplete \in {"undefined", "boolean"}
        /\ state.selectedFeature \in {"undefined", "null", "string"}
        /\ state.planningComplete = "boolean"
        /\ state.codingComplete = "boolean"
        /\ state.testingComplete = "boolean"
        /\ state.debuggingComplete = "boolean"
        /\ state.activeSessions = "array"

\* a file: missing; present but readFileSync throws; or present with a text
Absent == [exists |-> FALSE, readable |-> FALSE, text |-> NotJson]
Unreadable == [exists |-> TRUE, readable |-> FALSE, text |-> NotJson]
StateFiles ==
  {Absent, Unreadable}
    \cup {[exists |-> TRUE, readable |-> TRUE, text |-> t] : t \in Texts}
FewStateFiles ==
  {Absent, Unreadable, [exists |-> TRUE, readable |-> TRUE, text |-> NotJson],
   [exists |-> TRUE, readable |-> TRUE,
    text |-> [json |-> TRUE, value |-> JsNull]],
   [exists |-> TRUE, readable |-> TRUE,
    text |-> [json |-> TRUE,
              value |-> [type |-> "object", fields |-> NoFields]]],
   [exists |-> TRUE, readable |-> TRUE,
    text |-> [json |-> TRUE,
              value |-> [type |-> "object", fields |-> defaultKinds]]]}

\* existsSync(f) and, inside try/catch, readFileSync, safeJsonParse and
\* `state && isValidState(state)`
usable(file) ==
  file.exists /\ file.readable /\ isValidState(safeJsonParse(file.text))

\* state.workDir || fallback
workDirOr(state, fallback) ==
  IF state.workDir \in {"undefined", "null"} THEN fallback ELSE "own"

\* variant: the global file is asked first
loadStateFrom_globalFirst(workDir, projectFile, globalFile) ==
  IF usable(globalFile)
    THEN [from |-> "global", state |-> safeJsonParse(globalFile.text).fields,
          workDir |-> workDirOr(safeJsonParse(globalFile.text).fields,
                                "DEFAULT_PROJECT_DIR"),
          threw |-> FALSE]
    ELSE IF workDir # NULL /\ usable(projectFile)
      THEN [from |-> "project", state |-> safeJsonParse(projectFile.text).fields,
            workDir |-> workDirOr(safeJsonParse(projectFile.text).fields,
                                  "argument"),
            threw |-> FALSE]
      ELSE [from |-> "default", state |-> defaultKinds,
            workDir |-> "DEFAULT_PROJECT_DIR", threw |-> FALSE]

\* loadState(workDir) as a function of the two files it reads
loadStateFrom(workDir, projectFile, globalFile) ==
  IF workDir # NULL /\ usable(projectFile)
    THEN [from |-> "project", state |-> safeJsonParse(projectFile.text).fields,
          workDir |-> workDirOr(safeJsonParse(projectFile.text).fields,
                                "argument"),
          threw |-> FALSE]
    ELSE IF usable(globalFile)
      THEN [from |-> "global", state |-> safeJsonParse(globalFile.text).fields,
            workDir |-> workDirOr(safeJsonParse(globalFile.text).fields,
                                  "DEFAULT_PROJECT_DIR"),
            threw |-> FALSE]
      ELSE [from |-> "default", state |-> defaultKinds,
            workDir |-> "DEFAULT_PROJECT_DIR", threw |-> FALSE]

NotLoaded == [from |-> "none", state |-> NoFields, workDir |-> "none",
              threw |-> FALSE]

InitStore ==
  /\ store \in [workDir : {NULL} \cup WorkDirArgs, projectFile : StateFiles,
                globalFile : StateFiles, loaded : {NotLoaded},
                verdict : {"unknown"}]
  /\ store.projectFile \in FewStateFiles \/ store.globalFile \in FewStateFiles
  /\ oracle = NULL /\ det = NULL /\ wait = NULL /\ tmux = NULL
  /\ sfs = NULL /\ plog = NULL /\ ids = NULL /\ wd = NULL /\ tool = NULL
  /\ msg = NULL /\ par = NULL
  /\ PhasesAtRest

\* a caller loads the state
loadState_call ==
  /\ store.loaded = NotLoaded
  /\ store' = [store EXCEPT !.loaded = loadStateFrom(store.workDir,
                                         store.projectFile, store.globalFile)]
  /\ UNCHANGED <<pvars, oracle, det, wait, tmux,
                 sfs, plog, ids, wd, tool, msg, par>>

\* the validator applied to what the project file parses to
isValidState_call ==
  /\ store.verdict = "unknown"
  /\ store.projectFile.exists /\ store.projectFile.readable
  /\ store' = [store EXCEPT !.verdict =
                 IF isValidState(safeJsonParse(store.projectFile.text))
                   THEN "valid" ELSE "invalid"]
  /\ UNCHANGED <<pvars, oracle, det, wait, tmux,
                 sfs, plog, ids, wd, tool, msg, par>>

NextStore == loadState_call \/ isValidState_call

SpecStore == InitStore /\ [][NextStore]_vars

\* what the claims call a structurally valid state file
RequiredOk(state) ==
  /\ state.currentPhase \in {"null", "string"}
  /\ state.task = "string" /\ state.iteration = "number"
  /\ \A f \in {"planningComplete", "codingComplete", "testingComplete",
               "debuggingComplete"} : state[f] = "boolean"
  /\ state.activeSessions = "array"
OptionalOk(state) ==
  /\ state.discoveryComplete \in {"undefined", "boolean"}
  /\ state.selectedFeature \in {"undefined", "null", "string"}
Acceptable(file) ==
  /\ file.exists /\ file.readable /\ file.text.json
  /\ file.text.value.type = "object"
  /\ RequiredOk(file.text.value.fields) /\ OptionalOk(file.text.value.fields)

\* C19: loadState returns the content of the project file if a workDir is
\* given and that file exists, can be read, parses and is structurally valid;
\* else the content of the global file under the same rule; else the default
\* state; and it returns, whatever the two files hold.
C19_LoadOrder ==
  store.loaded # NotLoaded =>
    /\ ~store.loaded.threw
    /\ IF store.workDir # NULL /\ Acceptable(store.projectFile)
         THEN /\ store.loaded.from = "project"
              /\ store.loaded.state = store.projectFile.text.value.fields
         ELSE IF Acceptable(store.globalFile)
           THEN /\ store.loaded.from = "global"
                /\ store.loaded.state = store.globalFile.text.value.fields
           ELSE /\ store.loaded.from = "default"
                /\ store.loaded.state = defaultKinds

\* the project file held JSON of the wrong shape; the global file was used
C19_Witness ==
  /\ store.loaded.from = "global" /\ store.workDir # NULL
  /\ store.projectFile.text.json
  /\ store.projectFile.text.value.type = "object"
  /\ ~Acceptable(store.projectFile)

\* C20 (as stated): isValidState accepts exactly the objects whose required
\* fields have their types.
C20_RequiredFieldsDecide ==
  store.verdict # "unknown" =>
    (store.verdict = "valid" <=>
       /\ store.projectFile.text.json
       /\ store.projectFile.text.value.type = "object"
       /\ RequiredOk(store.projectFile.text.value.fields))

\* C20 (amended): isValidState accepts exactly the objects whose required
\* fields have their types and whose discoveryComplete, if present, is a
\* boolean and whose selectedFeature, if present, is null or a string; a file
\* it rejects is passed over by loadState, which returns all the same.
C20_ValidShape ==
  /\ store.verdict # "unknown" =>
       (store.verdict = "valid" <=> Acceptable(store.projectFile))
  /\ store.verdict = "invalid" /\ store.loaded # NotLoaded =>
       store.loaded.from # "project" /\ ~store.loaded.threw

\* valid JSON with one required field of the wrong type: rejected, and
\* loadState fell back to the default
C20_Witness ==
  /\ store.verdict = "invalid" /\ store.loaded.from = "default"
  /\ store.projectFile.text.json
  /\ store.projectFile.text.value.type = "object"
  /\ store.projectFile.text.value.fields =
       [defaultKinds EXCEPT !["iteration"] = "string"]

\* ----------------------------------------------------------------- SpecSave
\* saveState and loadState on the texts they write and read.  A JSON text of
\* an object is the function from the keys it holds to their values: a key
\* whose value is undefined is not written.  Time is Date.now(), milliseconds.
UNDEF == "undefined"
StateFields == Fields \cup {"lastUpdate"}

\* JSON.stringify(state, null, 2)
stringify(state) ==
  [f \in {g \in DOMAIN state : g # "selectedFeature" \/ state[g] # UNDEF}
     |-> state[f]]

\* JSON.parse(raw): reading a key the text does not hold gives undefined
parse(raw) == [f \in StateFields |-> IF f \in DOMAIN raw THEN raw[f] ELSE UNDEF]

\* the JavaScript types isValidState sees in a parsed state text
jsKinds(obj) ==
  [type |-> "object",
   fields |->
     [f \in Fields |->
        CASE f = "selectedFeature" ->
               IF obj[f] = UNDEF THEN "undefined"
               ELSE IF obj[f] = NULL THEN "null" ELSE "string"
          [] f = "currentPhase" -> IF obj[f] = NULL THEN "null" ELSE "string"
          [] OTHER -> defaultKinds[f]]]

\* variant: only the project-scoped file is written
writeState_projectOnly(texts, state, now) ==
  [texts EXCEPT ![state.workDir] =
     <<stringify([state EXCEPT !.lastUpdate = now])>>]

\* saveState(state): stamp, stringify once, write both texts
writeState(texts, state, now) ==
  [texts EXCEPT ![state.workDir] =
                  <<stringify([state EXCEPT !.lastUpdate = now])>>,
                ![GLOBAL] = <<stringify([state EXCEPT !.lastUpdate = now])>>]

\* loadState(workDir) on such texts
readState(texts, workDir, now) ==
  IF workDir # NULL /\ texts[workDir] # <<>>
       /\ isValidState(jsKinds(parse(texts[workDir][1])))
    THEN parse(texts[workDir][1])
    ELSE IF texts[GLOBAL] # <<>>
              /\ isValidState(jsKinds(parse(texts[GLOBAL][1])))
      THEN parse(texts[GLOBAL][1])
      ELSE defaultStateAt(now)

\* states a phase hands to saveState: workDir is a project directory; an
\* object loaded from a file of an older version has no selectedFeature
SaveArgs ==
  {[defaultStateAt(0) EXCEPT !.workDir = w, !.currentPhase = p,
                             !.selectedFeature = sel, !.planningComplete = pc,
                             !.iteration = IF pc THEN 1 ELSE 0] :
     w \in ProjectDirs, p \in {NULL, "coding"}, sel \in {UNDEF, NULL, "feature"},
     pc \in BOOLEAN}

InitSave ==
  /\ sfs = [files |-> Disk0, now |-> 1, saves |-> 0,
            saved |-> defaultStateAt(0), previous |-> 0,
            loaded |-> defaultStateAt(0), arg |-> "none"]
  /\ oracle = NULL /\ det = NULL /\ wait = NULL /\ tmux = NULL /\ store = NULL
  /\ plog = NULL /\ ids = NULL /\ wd = NULL /\ tool = NULL
  /\ msg = NULL /\ par = NULL
  /\ PhasesAtRest

\* a millisecond passes
Tick ==
  /\ sfs.now <= MaxMs
  /\ sfs' = [sfs EXCEPT !.now = @ + 1]
  /\ UNCHANGED <<pvars, oracle, det, wait, tmux, store, plog, ids, wd, tool, msg, par>>

\* saved, previous (ghosts): the object as stamped by this save, and the stamp
\* of the save before
saveState_call ==
  /\ sfs.saves < MaxSaves
  /\ \E state \in SaveArgs :
       sfs' = [sfs EXCEPT !.files = writeState(sfs.files, state, sfs.now),
                          !.saves = @ + 1,
                          !.saved = [state EXCEPT !.lastUpdate = sfs.now],
                          !.previous = sfs.saved.lastUpdate,
                          !.arg = "none"]
  /\ UNCHANGED <<pvars, oracle, det, wait, tmux, store, plog, ids, wd, tool, msg, par>>

\* arg (ghost): the argument of the load made since the last save
loadState_afterSave ==
  /\ sfs.saves > 0 /\ sfs.arg = "none"
  /\ \E workDir \in {NULL} \cup ProjectDirs :
       sfs' = [sfs EXCEPT !.loaded = readState(sfs.files, workDir, sfs.now),
                          !.arg = workDir]
  /\ UNCHANGED <<pvars, oracle, det, wait, tmux, store, plog, ids, wd, tool, msg, par>>

NextSave == Tick \/ saveState_call \/ loadState_afterSave

SpecSave == InitSave /\ [][NextSave]_vars

\* C21: a load that follows a save, with the saved state's workDir or with
\* none, returns the saved state field by field, and the stamp of each save
\* after the first is greater than the stamp of the save before it.
C21_RoundTrip ==
  /\ sfs.arg \in {NULL, sfs.saved.workDir} =>
       \A f \in Fields : sfs.loaded[f] = sfs.saved[f]
  /\ sfs.saves >= 2 => sfs.saved.lastUpdate > sfs.previous

\* C22: after a save the project-scoped file of the saved state's workDir and
\* the global file hold the same text, and a load without workDir returns the
\* state saved last, stamp included.
C22_BothFiles ==
  sfs.saves > 0 =>
    /\ sfs.files[sfs.saved.workDir] = sfs.files[GLOBAL]
    /\ sfs.files[GLOBAL] # <<>>
    /\ sfs.arg = NULL => sfs.loaded = sfs.saved

\* two saves for different projects, then a load without workDir
C22_Witness ==
  /\ sfs.saves = 2 /\ sfs.arg = NULL
  /\ sfs.saved.workDir = DEFAULT_PROJECT_DIR
  /\ sfs.files[Proj] # <<>> /\ sfs.files[Proj] # sfs.files[GLOBAL]
  /\ sfs.loaded.selectedFeature = UNDEF

\* ------------------------------------------------------------- SpecProgress
\* The lookup of waitForProgressEvent in progress.jsonl, line by line.  A line
\* is blank, text that is no JSON, or the JSON text of a value; a value is a
\* type and the three properties the lookup reads, each a <<type, text>> pair
\* (a property the value does not have reads as undefined).
Missing == <<"undefined", "">>
Str(text) == <<"string", text>>
Num(text) == <<"number", text>>
JsValue(type, a, b, c) == [type |-> type, agent |-> a, action |-> b, iteration |-> c]
NullValue == JsValue("null", Missing, Missing, Missing)

EventValues ==
  {JsValue("object", Str(a), Str(b), i) :
     a \in {"claude", "gemini"}, b \in {"plan_written"},
     i \in {Num("1"), Num("2"), Str("2")}}
    \cup {JsValue("object", Str("claude"), Missing, Num("2")),
          JsValue("number", Missing, Missing, Missing),
          NullValue}

BlankLine == [kind |-> "blank", value |-> NullValue]
TextLine == [kind |-> "text", value |-> NullValue]
LogLines ==
  {BlankLine, TextLine} \cup {[kind |-> "json", value |-> v] : v \in EventValues}

\* safeJsonParse(line): the value, or null when JSON.parse throws
parseLine(line) == IF line.kind = "json" THEN line.value ELSE NullValue

\* event && event.agent === agent && event.action === action
\*       && event.iteration === iteration
eventMatches(event, agent, action, iteration) ==
  /\ event.type # "null"
  /\ event.agent = Str(agent)
  /\ event.action = Str(action)
  /\ event.iteration = Num(iteration)

\* content.trim().split("\n").filter(l => l.trim())
nonBlankLines(content) == SelectSeq(content, LAMBDA l : l.kind # "blank")

\* variant: the scan ends at the first line that does not parse
RECURSIVE scan_untilUnparsed(_, _, _, _)
scan_untilUnparsed(lines, agent, action, iteration) ==
  IF lines = <<>> THEN FALSE
  ELSE IF Head(lines).kind = "text" THEN FALSE
  ELSE IF eventMatches(parseLine(Head(lines)), agent, action, iteration) THEN TRUE
  ELSE scan_untilUnparsed(Tail(lines), agent, action, iteration)

\* for (const line of lines) { ... return; }
RECURSIVE scan(_, _, _, _)
scan(lines, agent, action, iteration) ==
  IF lines = <<>> THEN FALSE
  ELSE IF eventMatches(parseLine(Head(lines)), agent, action, iteration) THEN TRUE
  ELSE scan(Tail(lines), agent, action, iteration)

InitProgress ==
  /\ plog = [content |-> <<>>, query |-> <<>>, found |-> FALSE]
  /\ oracle = NULL /\ det = NULL /\ wait = NULL /\ tmux = NULL /\ store = NULL
  /\ sfs = NULL /\ ids = NULL /\ wd = NULL /\ tool = NULL
  /\ msg = NULL /\ par = NULL
  /\ PhasesAtRest

\* an agent (or anything else) appends a line to progress.jsonl
LineAppended ==
  /\ Len(plog.content) < MaxLines
  /\ \E line \in LogLines :
       plog' = [plog EXCEPT !.content = Append(@, line), !.query = <<>>,
                            !.found = FALSE]
  /\ UNCHANGED <<pvars, oracle, det, wait, tmux, store, sfs, ids, wd, tool, msg, par>>

\* one pass of the loop of waitForProgressEvent over the file
waitForProgressEvent_lookup ==
  /\ plog.query = <<>>
  /\ \E agent \in {"claude", "gemini"}, iteration \in {"1", "2"} :
       plog' = [plog EXCEPT
                  !.query = <<agent, "plan_written", iteration>>,
                  !.found = scan(nonBlankLines(plog.content), agent,
                                 "plan_written", iteration)]
  /\ UNCHANGED <<pvars, oracle, det, wait, tmux, store, sfs, ids, wd, tool, msg, par>>

NextProgress == LineAppended \/ waitForProgressEvent_lookup

SpecProgress == InitProgress /\ [][NextProgress]_vars

\* the line is the JSON text of an object with exactly the three values asked
isEventLine(line, query) ==
  /\ line.kind = "json" /\ line.value.type = "object"
  /\ line.value.agent = Str(query[1])
  /\ line.value.action = Str(query[2])
  /\ line.value.iteration = Num(query[3])

\* C23: the lookup succeeds exactly when some line of the file is the JSON
\* text of an object whose agent, action and iteration are the values asked
\* for, whatever blank or unparseable lines stand before or after it.
C23_LookupFinds ==
  plog.query # <<>> =>
    (plog.found <=>
       \E i \in 1..Len(plog.content) : isEventLine(plog.content[i], plog.query))

\* found behind an unparseable line and a line with iteration "2" as a string
C23_Witness ==
  /\ plog.query = <<"claude", "plan_written", "2">> /\ plog.found
  /\ Len(plog.content) = 3
  /\ plog.content[1] = TextLine
  /\ plog.content[2].value.iteration = Str("2")
  /\ isEventLine(plog.content[3], plog.query)

\* ------------------------------------------------------------------ SpecIds
\* The request tokens of sendMessage.  Two sessions send at their own pace
\* (the discovery phase sends to its three agents in one Promise.all); a send
\* draws its token first and returns after Bun.sleep(300), so the clock has
\* advanced when the same session sends again.  The random suffix is any
\* value of a small set.
Suffixes == {"k3f9", "0b2x"}
Senders == {"claude", "gemini"}

\* variant: the token is the random suffix alone
generateRequestId_suffixOnly(now, suffix) == <<"RQ", 0, suffix>>

\* `RQ-${Date.now()}-${Math.random().toString(36).slice(2, 6)}`
generateRequestId(now, suffix) == <<"RQ", now, suffix>>

InitIds ==
  /\ ids = [now |-> 1,
            pc |-> [a \in Senders |-> "idle"],
            since |-> [a \in Senders |-> 0],
            issued |-> <<>>]
  /\ oracle = NULL /\ det = NULL /\ wait = NULL /\ tmux = NULL /\ store = NULL
  /\ sfs = NULL /\ plog = NULL /\ wd = NULL /\ tool = NULL
  /\ msg = NULL /\ par = NULL
  /\ PhasesAtRest

\* a millisecond passes
ClockAdvances ==
  /\ ids.now <= MaxMs
  /\ ids' = [ids EXCEPT !.now = @ + 1]
  /\ UNCHANGED <<pvars, oracle, det, wait, tmux, store, sfs, plog, wd, tool, msg, par>>

\* sendMessage up to its first await: the token is drawn and kept
sendMessage_begin ==
  /\ Len(ids.issued) < MaxSends
  /\ \E a \in Senders, suffix \in Suffixes :
       /\ ids.pc[a] = "idle"
       /\ ids' = [ids EXCEPT
                    !.pc[a] = "sending", !.since[a] = ids.now,
                    !.issued = Append(@, [session |-> a, at |-> ids.now,
                                          id |-> generateRequestId(ids.now, suffix)])]
  /\ UNCHANGED <<pvars, oracle, det, wait, tmux, store, sfs, plog, wd, tool, msg, par>>

\* sendMessage returns: the sleeps it awaited have passed
sendMessage_end ==
  /\ \E a \in Senders :
       /\ ids.pc[a] = "sending" /\ ids.now > ids.since[a]
       /\ ids' = [ids EXCEPT !.pc[a] = "idle"]
  /\ UNCHANGED <<pvars, oracle, det, wait, tmux, store, sfs, plog, wd, tool, msg, par>>

NextIds == ClockAdvances \/ sendMessage_begin \/ sendMessage_end

SpecIds == InitIds /\ [][NextIds]_vars

GatedFns == {"executeCoding", "executeTesting", "executeDebugging"}
prerequisite(state, fn) ==
  IF fn = "executeCoding" THEN state.planningComplete ELSE state.codingComplete

\* C29: a call of code, test or debug that finds its prerequisite flag unset
\* in the state it loads returns { success: false } at once, without throwing,
\* and leaves both state files, the frames and the sessions as they were.
C29_RefusalChangesNothing ==
  [][\A fn \in GatedFns :
       /\ run' = run + 1
       /\ fn = (IF result'.kind # "none" THEN result'.fn
                ELSE IF test'.pc # "idle" THEN "executeTesting" ELSE main'.fn)
       /\ ~prerequisite(loadState(NULL), fn)
       => /\ result' = Returned(fn, FALSE, FALSE)
          /\ stateFiles' = stateFiles
          /\ main' = main /\ test' = test /\ alive' = alive]_vars

\* debug was asked for after planning alone: refused, the planning state kept
C29_Witness ==
  /\ Idle /\ result = Returned("executeDebugging", FALSE, FALSE) /\ run = 1
  /\ stateFiles[GLOBAL] = <<PlannedState>> /\ stateFiles[Proj] = <<PlannedState>>

\* -------------------------------------------- the CallTool handler (in Spec)
\* What the handler answers for the outcome of the phase it awaited: the
\* result text of a returned { success, result }, without looking at success;
\* "Error: ..." with isError for an exception caught by its try block.
ToolPhases ==
  {"executePlanning", "executeCoding", "executeTesting", "executeDebugging"}
callToolResponse(outcome) ==
  [text |-> IF outcome.kind = "throw" THEN "Error: message" ELSE "result",
   isError |-> outcome.kind = "throw"]

\* C25: the answer to plan, code, test or debug carries the error flag exactly
\* when the phase failed, by returning success = false or by throwing.
C25_FailureFlagged ==
  Delivered /\ result.fn \in ToolPhases =>
    (callToolResponse(result).isError <=> ~result.success)

\* ------------------------------------------- the completion flags (in Spec)
CompletionFlags == {"planningComplete", "codingComplete", "testingComplete"}

\* C26: no step of a phase turns a persisted planningComplete, codingComplete
\* or testingComplete from true to false.
C26_FlagsStay ==
  [][\A flag \in CompletionFlags :
       persistedFlag(stateFiles, flag) => persistedFlag(stateFiles', flag)]_vars

\* ---------------------------------------------------------------- SpecTools
\* The phase executors of Spec, and beside them the tools stop, reset and
\* status of the CallTool handler.  The handler is asynchronous: a tool call
\* may arrive while a phase is between two of its steps.

\* `grep pipeline` on a session name: the names are gumploop-<hash>-<type>
\* with a hash of at most six base-36 characters
grepPipeline(name) == FALSE

\* the sessions stopAllAgents kills: those the loaded state lists, and the
\* existing ones whose name matches
killed(state) ==
  {state.activeSessions[i] : i \in 1..Len(state.activeSessions)}
    \cup {s \in alive : grepPipeline(s)}

\* the state files after rm -rf of the pipeline directory of `dir` only
removeStateFiles_projectOnly(disk, dir) == [disk EXCEPT ![dir] = <<>>]

\* rm -rf ${pipelineDir} ${STATE_FILE}
removeStateFiles(disk, dir) == [disk EXCEPT ![dir] = <<>>, ![GLOBAL] = <<>>]

\* the text of getStatus(), as the values it shows
getStatus(state) ==
  [phase |-> IF state.currentPhase = NULL THEN "None" ELSE state.currentPhase,
   iteration |-> state.iteration,
   sessions |-> state.activeSessions,
   planning |-> state.planningComplete, coding |-> state.codingComplete,
   testing |-> state.testingComplete, debugging |-> state.debuggingComplete]

InitTools ==
  /\ InitServer
  /\ tool = [calls |-> 0, last |-> "none", clock |-> 0,
             workDir |-> DEFAULT_PROJECT_DIR, text |-> <<>>,
             run |-> 0, busy |-> FALSE]

\* the phase executors leave `tool` alone; a tool call is recorded with the
\* clock at its return (clock: no saveState has run since) and, for reset,
\* the workDir of the state it loaded; run and busy (ghosts): the number of
\* phase invocations so far, and whether one was in flight
Called(name, at, workDir, text) ==
  tool' = [calls |-> tool.calls + 1, last |-> name, clock |-> at,
           workDir |-> workDir, text |-> text,
           run |-> run, busy |-> ~Idle]

\* case "stop": stopAllAgents()
stopAllAgents_call ==
  /\ tool.calls < MaxToolCalls
  /\ LET state == loadState(NULL)
     IN /\ alive' = alive \ killed(state)
        /\ jobs' = {j \in jobs : j.session \notin killed(state)}
        /\ saveState([state EXCEPT !.activeSessions = <<>>, !.currentPhase = NULL])
        /\ Called("stop", clock + 1, state.workDir, <<>>)
  /\ UNCHANGED <<main, test, terminalProc, files, progress, owned, run, epoch,
                 result, oracle, det, wait, tmux, store, sfs, plog, ids, wd, msg, par>>

\* case "reset": stopAllAgents(), which saves the state, then the pipeline
\* directory of the loaded workDir and the global state file are removed
reset_call ==
  /\ tool.calls < MaxToolCalls
  /\ LET state == loadState(NULL)
         stopped == [state EXCEPT !.activeSessions = <<>>, !.currentPhase = NULL]
         saved == [stateFiles EXCEPT ![state.workDir] = <<Stamped(stopped)>>,
                                     ![GLOBAL] = <<Stamped(stopped)>>]
     IN /\ alive' = alive \ killed(state)
        /\ jobs' = {j \in jobs : j.session \notin killed(state)}
        /\ stateFiles' = removeStateFiles(saved, state.workDir)
        /\ clock' = clock + 1
        /\ files' = NoFiles
        /\ progress' = {}
        /\ Called("reset", clock + 1, state.workDir, <<>>)
  /\ UNCHANGED <<main, test, terminalProc, owned, run, epoch,
                 result, oracle, det, wait, tmux, store, sfs, plog, ids, wd, msg, par>>

\* case "status": getStatus()
getStatus_call ==
  /\ tool.calls < MaxToolCalls
  /\ Called("status", clock, loadState(NULL).workDir, <<getStatus(loadState(NULL))>>)
  /\ UNCHANGED <<pvars, oracle, det, wait, tmux, store, sfs, plog, ids, wd, msg, par>>

NextTools == Next \/ stopAllAgents_call \/ reset_call \/ getStatus_call

SpecTools == InitTools /\ [][NextTools]_vars

\* C27: when reset has returned and nothing has saved a state since, loading
\* with no workDir and loading with the workDir that was current before the
\* reset both give the default state.
C27_ResetGivesDefault ==
  tool.last = "reset" /\ tool.clock = clock =>
    /\ loadState(NULL) = defaultState
    /\ loadState(tool.workDir) = defaultState

\* reset of a project that has a plan, called while its coding phase runs
C27_Witness ==
  /\ tool.last = "reset" /\ tool.clock = clock /\ tool.workDir = Proj
  /\ main.fn = "executeCoding" /\ main.state.planningComplete
  /\ stateFiles[Proj] = <<>> /\ files = NoFiles

\* C28: at the return of stop no session is alive, and the persisted state
\* has currentPhase = null and no active sessions.
C28_StopKillsAll ==
  [][stopAllAgents_call =>
       /\ alive' = {}
       /\ stateFiles'[GLOBAL] # <<>>
       /\ stateFiles'[GLOBAL][1].currentPhase = NULL
       /\ stateFiles'[GLOBAL][1].activeSessions = <<>>]_vars

\* -------------------------------------------------------------- SpecWorkDir
\* validateWorkDir and getProjectDir on paths.  A path is absolute or not and
\* has segments; the empty relative path is the empty string.  The file
\* system is the set of absolute paths that exist.
Segments == {"etc", "home", ".."}
Paths ==
  [abs : BOOLEAN, segs : UNION {[1..n -> Segments] : n \in 0..MaxPathLen}]
Abs(segs) == [abs |-> TRUE, segs |-> segs]
Cwd == <<"home">>
DefaultDir == Abs(<<"tmp", "collab-mcp", "project">>)
FORBIDDEN_PATHS ==
  {Abs(<<>>), Abs(<<"etc">>), Abs(<<"usr">>), Abs(<<"bin">>), Abs(<<"sbin">>),
   Abs(<<"root">>), Abs(<<"boot">>), Abs(<<"sys">>), Abs(<<"proc">>)}

\* path normalisation: a ".." segment drops the segment before it
RECURSIVE normalize(_, _)
normalize(done, rest) ==
  IF rest = <<>> THEN done
  ELSE IF Head(rest) = ".."
    THEN normalize(IF done = <<>> THEN <<>> ELSE SubSeq(done, 1, Len(done) - 1),
                   Tail(rest))
    ELSE normalize(Append(done, Head(rest)), Tail(rest))

\* path.resolve(workDir): a relative path is taken from the working directory
resolve(workDir) ==
  Abs(normalize(<<>>, IF workDir.abs THEN workDir.segs ELSE Cwd \o workDir.segs))

isAbsolute(path) == path.abs

\* workDir.split(sep).includes("..")
hasTraversal(workDir) == \E i \in 1..Len(workDir.segs) : workDir.segs[i] = ".."

Invalid(error) == [valid |-> FALSE, error |-> error, resolved |-> DefaultDir]

validateWorkDir(workDir, dirs) ==
  IF hasTraversal(workDir) THEN Invalid("Path traversal detected")
  ELSE IF ~isAbsolute(resolve(workDir)) THEN Invalid("Path must be absolute")
  ELSE IF resolve(workDir) \notin dirs THEN Invalid("Directory does not exist")
  ELSE IF resolve(workDir) \in FORBIDDEN_PATHS
    THEN Invalid("Cannot use system directory")
    ELSE [valid |-> TRUE, error |-> "", resolved |-> resolve(workDir)]

\* mkdirSync(path, { recursive: true }): the path and the paths above it
withDir(dirs, path) ==
  dirs \cup {Abs(SubSeq(path.segs, 1, n)) : n \in 0..Len(path.segs)}

\* getProjectDir(workDir) once the directory has been created or not
projectDirOn(workDir, dirs) ==
  IF workDir = [abs |-> FALSE, segs |-> <<>>] THEN DefaultDir
  ELSE IF validateWorkDir(workDir, dirs).valid
    THEN validateWorkDir(workDir, dirs).resolved
    ELSE DefaultDir

InitWorkDir ==
  /\ wd = [dirs |-> {Abs(<<>>), Abs(<<"etc">>), Abs(<<"home">>)},
           created |-> 0, op |-> "none", arg |-> DefaultDir,
           validation |-> Invalid(""), projectDir |-> DefaultDir]
  /\ oracle = NULL /\ det = NULL /\ wait = NULL /\ tmux = NULL /\ store = NULL
  /\ sfs = NULL /\ plog = NULL /\ ids = NULL /\ tool = NULL
  /\ msg = NULL /\ par = NULL
  /\ PhasesAtRest

validateWorkDir_call ==
  /\ \E workDir \in Paths :
       wd' = [wd EXCEPT !.op = "validateWorkDir", !.arg = workDir,
                        !.validation = validateWorkDir(workDir, wd.dirs)]
  /\ UNCHANGED <<pvars, oracle, det, wait, tmux, store, sfs, plog, ids, tool, msg, par>>

\* getProjectDir(workDir): a missing directory is created first, or the
\* creation fails and is logged; then the path is validated
getProjectDir_call ==
  /\ \E workDir \in Paths, created \in BOOLEAN :
       LET creates == /\ workDir # [abs |-> FALSE, segs |-> <<>>]
                      /\ resolve(workDir) \notin wd.dirs /\ created
           dirs == IF creates THEN withDir(wd.dirs, resolve(workDir)) ELSE wd.dirs
       IN /\ creates => wd.created < MaxCreated
          /\ wd' = [wd EXCEPT !.op = "getProjectDir", !.arg = workDir,
                           !.dirs = dirs,
                           !.created = IF creates THEN @ + 1 ELSE @,
                           !.validation =
                              IF workDir = [abs |-> FALSE, segs |-> <<>>] THEN @
                              ELSE validateWorkDir(workDir, dirs),
                           !.projectDir = projectDirOn(workDir, dirs)]
  /\ UNCHANGED <<pvars, oracle, det, wait, tmux, store, sfs, plog, ids, tool, msg, par>>

NextWorkDir == validateWorkDir_call \/ getProjectDir_call

SpecWorkDir == InitWorkDir /\ [][NextWorkDir]_vars

\* C30: getProjectDir answers the default directory for a relative path, for
\* a path with a ".." segment and for a deny-listed directory, and answers the
\* resolved path for an absolute path without ".." that exists and is not
\* deny-listed.
C30_RejectsAndAccepts ==
  wd.op = "getProjectDir" =>
    /\ (~wd.arg.abs \/ hasTraversal(wd.arg) \/ wd.arg \in FORBIDDEN_PATHS)
         => wd.projectDir = DefaultDir
    /\ (wd.arg.abs /\ ~hasTraversal(wd.arg)
          /\ wd.arg \in wd.dirs /\ wd.arg \notin FORBIDDEN_PATHS)
         => wd.projectDir = resolve(wd.arg)

\* ------------------------------------------- the pane fallback (SpecDetect)
\* C31: a claude wait that returned by its pane fallback had, in the capture
\* that passed the first test, the prompt and no busy marker, and has no busy
\* marker in the capture taken after the delay.
C31_IdleTwice ==
  det.outcome = "returned" /\ det.via = "pane" =>
    /\ det.first.prompt /\ ~det.first.busy
    /\ ~det.second.busy

\* ------------------------------------------------ review files (in Spec)
\* C32: when a consensus iteration of planning or discovery has found both
\* reviewers approving, each of the two review files it read was written for
\* that iteration.
C32_ReviewsOfThisIteration ==
  /\ (main.fn = "executePlanning" /\ main.pc = "loop" /\ main.approved) =>
       /\ files.reviewGemini.iteration = main.state.iteration
       /\ files.reviewCodex.iteration = main.state.iteration
  /\ (main.fn = "executeDiscovery" /\ main.pc = "loop" /\ main.approved) =>
       /\ files.consensusReviewGemini.iteration = main.state.iteration
       /\ files.consensusReviewCodex.iteration = main.state.iteration

\* ---------------------------------------------- the plan check (in Spec)
\* C33: when plan.md is missing or too short once plan_written has been seen,
\* planning goes straight back to the head of its loop: no prompt is sent, no
\* consensus is recorded, the iteration number stays as counted; and at the
\* cap the loop is left without consensus.
C33_ShortPlanSkips ==
  [][/\ (/\ At("executePlanning", "wait_claude")
         /\ progressEventFound("claude", "plan_written", main.state.iteration)
         /\ files.plan # "ok"
         /\ main' # main)
        => /\ main'.pc = "loop"
           /\ ~main'.approved
           /\ main'.state.iteration = main.state.iteration
           /\ jobs' = jobs
     /\ (/\ At("executePlanning", "loop")
         /\ ~main.approved
         /\ main.state.iteration >= main.maxIterations
         /\ main' # main)
        => main'.pc = "send_final"]_vars

C33_Witness ==
  /\ main.fn = "executePlanning" /\ main.pc = "loop"
  /\ main.state.iteration = main.maxIterations
  /\ files.plan # "ok"
  /\ ~main.approved
  /\ progressEventFound("claude", "plan_written", main.state.iteration)
  /\ \A j \in jobs : j.action # "review_written"

\* ----------------------------------------------------------------- SpecSend
\* One TmuxAgent delivering prompts.  Each awaited tmux command is a step; a
\* command run with .quiet() throws when it exits non-zero: send-keys and
\* paste-buffer when the session is gone, load-buffer when no tmux server
\* runs.  The session and the server may go away between any two steps.
\* tmp: the directories made by mkdtempSync that still exist, by call number.
InitSend ==
  /\ msg \in [agentType : AgentType, pc : {"idle"}, call : {0}, tmp : {{}},
              buffer : {0}, pasted : {0}, submitted : {0},
              session : {TRUE}, server : {TRUE}, outcome : {"none"}]
  /\ oracle = NULL /\ det = NULL /\ wait = NULL /\ tmux = NULL /\ store = NULL
  /\ sfs = NULL /\ plog = NULL /\ ids = NULL /\ wd = NULL /\ tool = NULL
  /\ par = NULL
  /\ PhasesAtRest

SendUnchanged ==
  UNCHANGED <<pvars, oracle, det, wait, tmux, store, sfs, plog, ids, wd, tool, par>>

\* the session is killed from outside (another tmux client, the agent exits)
SessionGoes ==
  /\ msg.session
  /\ msg' = [msg EXCEPT !.session = FALSE]
  /\ SendUnchanged

\* the tmux server exits, and every session with it
ServerGoes ==
  /\ msg.server
  /\ msg' = [msg EXCEPT !.session = FALSE, !.server = FALSE]
  /\ SendUnchanged

\* lines 359-367: the token is drawn and the message wrapped
sendMessage_wrap ==
  /\ msg.pc = "idle" /\ msg.call < MaxMessages
  /\ msg' = [msg EXCEPT !.call = @ + 1, !.outcome = "none",
                        !.pc = IF msg.agentType = "gemini" THEN "clear" ELSE "mktemp"]
  /\ SendUnchanged

\* lines 369-376 (gemini only): send-keys Escape, then send-keys C-u
sendMessage_clear ==
  /\ msg.pc = "clear"
  /\ msg' = IF msg.session
              THEN [msg EXCEPT !.pc = "mktemp"]
              ELSE [msg EXCEPT !.pc = "idle", !.outcome = "thrown"]
  /\ SendUnchanged

\* lines 379-385: mkdtempSync, writeFileSync, delete-buffer || true
sendMessage_mktemp ==
  /\ msg.pc = "mktemp"
  /\ msg' = [msg EXCEPT !.tmp = @ \cup {msg.call}, !.buffer = 0, !.pc = "load"]
  /\ SendUnchanged

\* line 386: load-buffer
sendMessage_load ==
  /\ msg.pc = "load"
  /\ msg' = IF msg.server
              THEN [msg EXCEPT !.buffer = msg.call, !.pc = "paste"]
              ELSE [msg EXCEPT !.pc = "idle", !.outcome = "thrown"]
  /\ SendUnchanged

\* lines 387-390: paste-buffer, then rmSync of the directory
sendMessage_paste ==
  /\ msg.pc = "paste"
  /\ msg' = IF msg.session
              THEN [msg EXCEPT !.pasted = msg.buffer, !.tmp = @ \ {msg.call},
                               !.pc = "enter"]
              ELSE [msg EXCEPT !.pc = "idle", !.outcome = "thrown"]
  /\ SendUnchanged

\* lines 392-393: Bun.sleep(300), send-keys Enter
sendMessage_enter ==
  /\ msg.pc = "enter"
  /\ msg' = IF msg.session
              THEN [msg EXCEPT !.submitted = msg.pasted,
                               !.pc = "idle", !.outcome = "returned"]
              ELSE [msg EXCEPT !.pc = "idle", !.outcome = "thrown"]
  /\ SendUnchanged

NextSend ==
  \/ SessionGoes \/ ServerGoes
  \/ sendMessage_wrap \/ sendMessage_clear \/ sendMessage_mktemp
  \/ sendMessage_load \/ sendMessage_paste \/ sendMessage_enter

SpecSend == InitSend /\ [][NextSend]_vars

\* C34: once a sendMessage call has returned or thrown, the temporary
\* directory it made (and the message file in it) is gone.
C34_TempGone ==
  msg.outcome # "none" => msg.call \notin msg.tmp

\* what the code does keep: a call that returns, or that got as far as
\* send-keys Enter, has removed its directory
C34_TempGoneOnReturn ==
  (msg.outcome = "returned" \/ msg.pc = "enter") => msg.call \notin msg.tmp

\* -------------------------------------------------------------- SpecWaitFair
\* The wait loop keeps running: Bun.sleep returns, and the loop test follows
\* the last pass.
SpecWaitFair ==
  /\ SpecWait
  /\ WF_vars(adaptiveWait_poll) /\ WF_vars(adaptiveWait_timeout)

\* C35: if from some point on the agent's pane no longer changes (it stays as
\* it is, or cannot be captured), the wait ends: it returns on a completion
\* signal or throws its timeout error.
C35_WaitEnds ==
  <>[](wait.agent # "active") => <>(wait.status # "running")

\* activity pushed the deadline past the base, then ceased, and the wait
\* timed out
C35_Witness ==
  /\ wait.status = "timeout" /\ wait.agent # "active"
  /\ wait.deadline > TIMEOUT_BASE
  /\ wait.lastActivityTime > ACTIVITY_CHECK_INTERVAL

\* ------------------------------------------ flags after debugging (in Spec)
\* C36: when executeDebugging has returned success, the persisted state has
\* debuggingComplete and testingComplete both true.
C36_BothFlagsAfterDebug ==
  (result.fn = "executeDebugging" /\ result.kind = "return" /\ result.success) =>
    /\ persistedFlag(stateFiles, "debuggingComplete")
    /\ persistedFlag(stateFiles, "testingComplete")

\* --------------------------------------------------------------- SpecElsewhere
\* The phase executors of Spec on a disk that runs on another project left:
\* planning and coding were run with the workDir argument omitted, so their
\* state is in the state file of the default project directory and in the
\* global file; the project of WorkDirArgs has no state file and no artifacts.
ElsewhereState == [CodedState EXCEPT !.workDir = DEFAULT_PROJECT_DIR]

InitElsewhere ==
  /\ stateFiles = [Disk0 EXCEPT ![DEFAULT_PROJECT_DIR] = <<ElsewhereState>>,
                                ![GLOBAL] = <<ElsewhereState>>]
  /\ clock = 10
  /\ files = NoFiles
  /\ progress = {}
  /\ main = IdleMain /\ test = IdleTest
  /\ alive = {} /\ terminalProc = {} /\ jobs = {} /\ owned = {}
  /\ run = 0 /\ epoch = 0 /\ result = NoResult
  /\ oracle = NULL /\ det = NULL /\ wait = NULL /\ tmux = NULL /\ store = NULL
  /\ sfs = NULL /\ plog = NULL /\ ids = NULL /\ wd = NULL /\ tool = NULL
  /\ msg = NULL /\ par = NULL

SpecElsewhere == InitElsewhere /\ [][Next]_vars

ProjectFlags ==
  {"planningComplete", "codingComplete", "testingComplete", "debuggingComplete"}
FirstPhases == {"executePlanning", "executeDiscovery", "executeResearch"}

\* C37: the state that plan, discover or research writes for a project that
\* had no state file carries none of the four completion flags as true.
C37_NoForeignFlags ==
  [][\A d \in WorkDirArgs :
       (/\ stateFiles[d] = <<>> /\ stateFiles'[d] # <<>>
        /\ main'.fn \in FirstPhases)
       => \A flag \in ProjectFlags : ~stateFiles'[d][1][flag]]_vars

\* ---------------------------------------------------------------- SpecStart
\* await Promise.all([claude.start(), gemini.start(), codex.start()]) and the
\* catch block of the phase.  The three start() calls run as three async
\* functions, interleaved at their awaits; Promise.all rejects with the first
\* rejection and does not cancel the others.  Per agent: pc is the await its
\* start() is at, handle is this.terminalProc # null, proc the terminal
\* process, session the tmux session the terminal creates once it runs.
StopOrder == <<"claude", "gemini", "codex">>

InitStart ==
  /\ par = [pc |-> [t \in AgentType |-> "kill"],
            handle |-> [t \in AgentType |-> FALSE],
            proc |-> [t \in AgentType |-> FALSE],
            session |-> [t \in AgentType |-> FALSE],
            phase |-> "awaiting", stopped |-> 0]
  /\ oracle = NULL /\ det = NULL /\ wait = NULL /\ tmux = NULL /\ store = NULL
  /\ sfs = NULL /\ plog = NULL /\ ids = NULL /\ wd = NULL /\ tool = NULL
  /\ msg = NULL
  /\ PhasesAtRest

StartUnchanged ==
  UNCHANGED <<pvars, oracle, det, wait, tmux, store, sfs, plog, ids, wd, tool, msg>>

\* await $`tmux kill-session -t ... || true`
startAll_kill ==
  /\ \E t \in AgentType :
       /\ par.pc[t] = "kill"
       /\ par' = [par EXCEPT !.pc[t] = "workspace", !.session[t] = FALSE]
  /\ StartUnchanged

\* await $`i3-msg workspace ...`, then spawn([TERMINAL, ...]): either throws
\* (nothing spawned), or the terminal runs and its handle is kept
startAll_workspace ==
  /\ \E t \in AgentType :
       /\ par.pc[t] = "workspace"
       /\ \/ par' = [par EXCEPT !.pc[t] = "failed"]
          \/ par' = [par EXCEPT !.pc[t] = "ready", !.handle[t] = TRUE,
                                !.proc[t] = TRUE]
  /\ StartUnchanged

\* the grace period and the readiness polls: start() returns
startAll_ready ==
  /\ \E t \in AgentType :
       /\ par.pc[t] = "ready"
       /\ par' = [par EXCEPT !.pc[t] = "returned"]
  /\ StartUnchanged

\* the spawned terminal runs tmux new-session
TerminalCreatesSession ==
  /\ \E t \in AgentType :
       /\ par.proc[t] /\ ~par.session[t]
       /\ par' = [par EXCEPT !.session[t] = TRUE]
  /\ StartUnchanged

\* Promise.all resolves: the three starts have returned
startAll_resolved ==
  /\ par.phase = "awaiting"
  /\ \A t \in AgentType : par.pc[t] = "returned"
  /\ par' = [par EXCEPT !.phase = "started"]
  /\ StartUnchanged

\* Promise.all rejects: a start has thrown; control enters the catch block
startAll_rejected ==
  /\ par.phase = "awaiting"
  /\ \E t \in AgentType : par.pc[t] = "failed"
  /\ par' = [par EXCEPT !.phase = "catch"]
  /\ StartUnchanged

\* await claude.stop(); await gemini.stop(); await codex.stop(): one at a time
catch_stop ==
  /\ par.phase = "catch" /\ par.stopped < Len(StopOrder)
  /\ LET t == StopOrder[par.stopped + 1]
     IN par' = [par EXCEPT !.stopped = @ + 1,
                           !.proc[t] = @ /\ ~par.handle[t],
                           !.handle[t] = FALSE,
                           !.session[t] = FALSE]
  /\ StartUnchanged

\* state.activeSessions = []; state.currentPhase = null; saveState; throw error
catch_rethrow ==
  /\ par.phase = "catch" /\ par.stopped = Len(StopOrder)
  /\ par' = [par EXCEPT !.phase = "thrown"]
  /\ StartUnchanged

NextStart ==
  \/ startAll_kill \/ startAll_workspace \/ startAll_ready
  \/ TerminalCreatesSession
  \/ startAll_resolved \/ startAll_rejected \/ catch_stop \/ catch_rethrow

SpecStart == InitStart /\ [][NextStart]_vars

\* C38: once the error of a failed parallel start has reached the caller, no
\* session of the phase is alive (at that moment, and at any later one).
C38_NoneAliveAfterError ==
  par.phase = "thrown" => \A t \in AgentType : ~par.session[t]

\* what the catch block does achieve: a start that had returned or thrown
\* when its stop() ran leaves no session behind
C38_FinishedStartsStopped ==
  par.phase = "thrown" =>
    \A t \in AgentType :
      par.session[t] => par.handle[t]

\* ------------------------------------------- stop during a phase (SpecTools)
\* C39: after a stop that was called while a phase was in flight, and until a
\* new phase is invoked, the persisted state has currentPhase = null and no
\* active sessions.
C39_StoppedStateStays ==
  (tool.last = "stop" /\ tool.busy /\ tool.run = run) =>
    /\ persisted.currentPhase = NULL
    /\ persisted.activeSessions = <<>>

\* ------------------------------------------------ session names (in Spec)
\* the roles a phase gives its agents
Roles(fn) ==
  CASE fn = "executePlanning" -> {"planner"}
    [] fn = "executeDiscovery" -> {"discover"}
    [] fn = "executeResearch" -> {"research"}
    [] fn = "executeCoding" -> {"coder", "reviewer"}
    [] fn = "executeDebugging" -> {"analyzer", "fixer", "tester"}
    [] OTHER -> {}

\* the agents of the phase run in flight that hold a terminal
RunAgents ==
  {a \in terminalProc :
     a.role \in Roles(main.fn) \cup (IF test.pc # "idle" THEN {"tester"} ELSE {})}

\* C40: two different agents of one phase run whose sessions are alive at the
\* same time have different session names.
C40_DistinctNames ==
  \A a, b \in RunAgents :
    (a # b /\ getSessionName(a) \in alive /\ getSessionName(b) \in alive)
      => getSessionName(a) # getSessionName(b)

\* inside debugging the tester runs in the session name the fixer had: the
\* fixer was stopped before the re-test started
C40_Witness ==
  /\ main.fn = "executeDebugging" /\ test.pc # "idle"
  /\ \E t \in RunAgents :
       /\ t.role = "tester" /\ getSessionName(t) \in alive
       /\ getSessionName(t) = getSessionName(Fixer(main.state.workDir))
  /\ Fixer(main.state.workDir) \notin terminalProc

====
